---- MODULE Spec2Model ----
(***************************************************************************)
(* Session tracking core of the event analytics dashboard.                 *)
(*                                                                         *)
(* The repository holds two backends.  impl = "A" is                       *)
(* event-analytics-dashboard/backend (sockets/cursorSocket.js, the        *)
(* CursorLog model with sessionMetrics, routes/cursorRoutes.js).           *)
(* impl = "B" is backend/ (setupSocketHandlers of server.js, the flat      *)
(* CursorLog model, routes/cursor.js).  A deployment runs one of them.     *)
(*                                                                         *)
(* Every handler is cut at its awaits: the step that receives the message  *)
(* runs the synchronous prefix, and each later step of the handler is a    *)
(* continuation that runs when the awaited store call returns.  Handlers   *)
(* in flight are kept in the sequence inflight; any of them may move next. *)
(***************************************************************************)
EXTENDS Integers, Sequences, FiniteSets, TLC

\* ------------------------------------------------------------------ bounds
Sockets == {"s1", "s2"}
Events == {"e1", "e2"}
OneSocket == {"s1"}
OneEvent == {"e1"}
SessionIds == {"k1"}
RestSessionIds == {"s1"}
Pages == {"p1"}
Xs == {5}
Ys == {5}
Depths == {20, 30}
TimesSpent == {10, 15}
Deltas == {600, 300001}
MaxTicks == 1
MaxOps == 3
MaxOpsA == 2
MaxOpsTrack == 4

\* ------------------------------------------------------- program constants
None == "none"
NullTime == 0 - 1
\* a coordinate the message does not carry (undefined)
Missing == 0 - 1
inactiveThreshold == 300000
staleThreshold == 300000
throttleMs == 1000
cursorCap == 1000
msPerSecond == 1000
heatmapGrid == 10
activeWindow == 300000

VARIABLES impl, clock, ticks, ops, sockState, connOrder, rooms,
          sessionData, activeSessions, logs, inflight, done,
          activeConnections, eventRooms

vars == <<impl, clock, ticks, ops, sockState, connOrder, rooms,
          sessionData, activeSessions, logs, inflight, done,
          activeConnections, eventRooms>>

sockVars == <<sockState, connOrder, rooms>>
regA == <<sessionData, activeSessions>>
regB == <<activeConnections, eventRooms>>
timeVars == <<impl, clock, ticks>>

\* ------------------------------------------------------------ sequences
RemoveAt(seq, i) == [j \in 1..(Len(seq) - 1) |-> IF j < i THEN seq[j] ELSE seq[j + 1]]

Max(a, b) == IF a > b THEN a ELSE b

\* JavaScript Math.floor(ms / 1000) and Math.round(ms / 1000), ms >= 0
FloorSeconds(ms) == ms \div msPerSecond
RoundSeconds(ms) == (ms + (msPerSecond \div 2)) \div msPerSecond

\* ------------------------------------------------------------- messages
\* One emit: its event name, the room it is addressed to (None for a
\* direct socket.emit), the sender, the sockets that receive it, a value.
Msg(type, room, from, to, val) ==
  [type |-> type, room |-> room, from |-> from, to |-> to, val |-> val]

InRoomS(ss, rm, e) == {t \in Sockets : ss[t] = "open" /\ e \in rm[t]}
InRoom(rm, e) == InRoomS(sockState, rm, e)

\* socket.to(room): every connected member of the room but the sender
SocketTo(rm, e, s) == InRoom(rm, e) \ {s}
\* io.to(room): every connected member of the room
IoTo(rm, e) == InRoom(rm, e)
\* socket.emit: the socket itself, when it is still connected
SocketEmit(s) == IF sockState[s] = "open" THEN {s} ELSE {}

HasMsg(out, type, e) == \E i \in 1..Len(out) : out[i].type = type /\ out[i].room = e
MsgIndex(out, type, e) ==
  IF HasMsg(out, type, e)
  THEN CHOOSE i \in 1..Len(out) : /\ out[i].type = type /\ out[i].room = e
                                  /\ \A j \in 1..(i - 1) : ~(out[j].type = type /\ out[j].room = e)
  ELSE 0

\* ----------------------------------------------------------------- rows
NoArg == [action |-> None, page |-> None, depth |-> 0, timeSpent |-> 0,
          x |-> 0, y |-> 0]

NoRow == [sessionId |-> None, eventId |-> None, isActive |-> FALSE,
          startTime |-> NullTime, endTime |-> NullTime, duration |-> NullTime,
          lastActivity |-> NullTime, totalClicks |-> 0, totalScrolls |-> 0,
          cursorData |-> <<>>, clicks |-> <<>>, hovers |-> 0,
          scrollDepth |-> <<>>, pagesVisited |-> <<>>,
          interactions |-> 0, pageViews |-> <<>>, createdAt |-> NullTime,
          nulled |-> FALSE]

\* CursorLog.findOne({sessionId, eventId, isActive: true}): the first match
ActiveRows(sid, e) == {i \in 1..Len(logs) : /\ logs[i].sessionId = sid
                                            /\ logs[i].eventId = e
                                            /\ logs[i].isActive}
FindActive(sid, e) ==
  IF ActiveRows(sid, e) = {} THEN 0
  ELSE CHOOSE i \in ActiveRows(sid, e) : \A j \in ActiveRows(sid, e) : i <= j

\* CursorLog.findOne({eventId, sessionId}): the first row of the pair
PairRows(sid, e) == {i \in 1..Len(logs) : logs[i].sessionId = sid /\ logs[i].eventId = e}
FindPair(sid, e) ==
  IF PairRows(sid, e) = {} THEN 0
  ELSE CHOOSE i \in PairRows(sid, e) : \A j \in PairRows(sid, e) : i <= j

\* ---------------------------------------------------------------- tasks
\* A handler in flight: its message (kind, sock, ev, sid, arg), where it
\* stands (pc), the time it read when it started (now) and when it last
\* built a timestamp (at), the document it holds (row, snap), what it has
\* emitted so far (out), for the sweep its place in the loop (pos) and the
\* entries it has deleted (gone), for a join the room the connection was in
\* when it joined (prev), for a request the value it replies (val).
Task(kind, s, e) ==
  [kind |-> kind, sock |-> s, ev |-> e, sid |-> None, pc |-> "find",
   now |-> NullTime, at |-> NullTime, row |-> 0, snap |-> NoRow, arg |-> NoArg,
   out |-> <<>>, res |-> None, pos |-> 0, gen |-> 0, val |-> NullTime,
   prev |-> None, gone |-> {}]

\* What is kept of a handler once it has returned
Result(t) ==
  [kind |-> t.kind, sock |-> t.sock, ev |-> t.ev, sid |-> t.sid,
   action |-> t.arg.action, res |-> t.res, out |-> t.out, row |-> t.row,
   val |-> t.val, prev |-> t.prev, gone |-> t.gone, x |-> t.arg.x]

NoResult == [kind |-> None, sock |-> None, ev |-> None, sid |-> None,
             action |-> None, res |-> None, out |-> <<>>, row |-> 0, val |-> NullTime,
             prev |-> None, gone |-> {}, x |-> 0]

\* ops is the number of messages and requests the clients may still send
Budget == ops > 0

\* the places a handler can hold in inflight: every counted operation and
\* every socket's disconnect in flight at once
Slots == 1..(MaxOpsTrack + Cardinality(Sockets))

NoEntryA == [currentEvent |-> None, lastActivity |-> NullTime]
NoEntryB == [eventId |-> None, sessionId |-> None, connectedAt |-> NullTime,
             lastCursorLog |-> NullTime, gen |-> 0]

\* The process has started: no connection, no handler, an empty store.
Base ==
  /\ clock = 0
  /\ ticks = 0
  /\ sockState = [s \in Sockets |-> "new"]
  /\ connOrder = <<>>
  /\ rooms = [s \in Sockets |-> {}]
  /\ sessionData = [s \in Sockets |-> NoEntryA]
  /\ activeSessions = {}
  /\ logs = <<>>
  /\ inflight = <<>>
  /\ done = NoResult
  /\ activeConnections = [s \in Sockets |-> NoEntryB]
  /\ eventRooms = [e \in Events |-> {}]

Init ==
  /\ Base
  /\ \/ impl = "A" /\ ops = MaxOpsA
     \/ impl = "B" /\ ops = MaxOps

\* Time passes.
Tick ==
  /\ ticks < MaxTicks
  /\ \E d \in Deltas : clock' = clock + d
  /\ ticks' = ticks + 1
  /\ UNCHANGED <<impl, ops, sockVars, regA, regB, logs, inflight, done>>

\* ======================================================================
\* Backend A: sockets/cursorSocket.js, the sessionMetrics CursorLog model
\* ======================================================================

\* A handler returns: it leaves inflight and becomes the last finished one.
Finish(i, t) ==
  /\ inflight' = RemoveAt(inflight, i)
  /\ done' = Result(t)

FirstPage(seq, page) ==
  IF \E i \in 1..Len(seq) : seq[i].page = page
  THEN CHOOSE i \in 1..Len(seq) : seq[i].page = page /\ \A j \in 1..(i - 1) : seq[j].page # page
  ELSE 0

\* CursorLog.create in join-event / createOrUpdateSession
NewRowA(sid, e, at) ==
  [NoRow EXCEPT !.sessionId = sid, !.eventId = e, !.isActive = TRUE,
                !.startTime = at, !.lastActivity = at, !.duration = 0,
                !.createdAt = at]

\* A variant of addCursorMovement that counts every sample as a click
addCursorMovementCountsAll(cur, doc, x, y, page, action, at) ==
  [cur EXCEPT !.cursorData = Append(@, action),
              !.lastActivity = at,
              !.totalClicks = doc.totalClicks + 1,
              !.clicks = IF action = "click"
                         THEN Append(@, [x |-> x, y |-> y, page |-> page])
                         ELSE @,
              !.totalScrolls = IF action = "scroll" THEN doc.totalScrolls + 1 ELSE @]

\* cursorLogSchema.methods.addCursorMovement (sessionMetrics model) followed
\* by save(): doc is the document the handler read, cur the stored row the
\* save lands on.  Array pushes are sent as $push, scalars as $set of the
\* value computed on the document.
addCursorMovement(cur, doc, x, y, page, action, at) ==
  [cur EXCEPT !.cursorData = Append(@, action),
              !.lastActivity = at,
              !.totalClicks = IF action = "click" THEN doc.totalClicks + 1 ELSE @,
              !.clicks = IF action = "click"
                         THEN Append(@, [x |-> x, y |-> y, page |-> page])
                         ELSE @,
              !.totalScrolls = IF action = "scroll" THEN doc.totalScrolls + 1 ELSE @]

\* cursorLogSchema.methods.addHoverData
addHoverData(cur, doc, at) == [cur EXCEPT !.hovers = @ + 1]

\* cursorLogSchema.methods.updateScrollDepth
updateScrollDepth(cur, doc, page, depth, at) ==
  LET k == FirstPage(doc.scrollDepth, page) IN
  IF k # 0
  THEN IF depth > doc.scrollDepth[k].maxDepth
       THEN [cur EXCEPT !.scrollDepth[k].maxDepth = depth]
       ELSE cur
  ELSE [cur EXCEPT !.scrollDepth = Append(@, [page |-> page, maxDepth |-> depth])]

\* cursorLogSchema.methods.addPageVisit
addPageVisit(cur, doc, page, timeSpent, at) ==
  LET k == FirstPage(doc.pagesVisited, page) IN
  IF k # 0
  THEN [cur EXCEPT !.pagesVisited[k].timeSpent = doc.pagesVisited[k].timeSpent + timeSpent]
  ELSE [cur EXCEPT !.pagesVisited = Append(@, [page |-> page, timeSpent |-> timeSpent])]

\* cursorLogSchema.methods.endSession (sessionMetrics model)
endSessionA(cur, doc, at) ==
  [cur EXCEPT !.endTime = at, !.isActive = FALSE,
              !.duration = IF doc.startTime # NullTime
                           THEN FloorSeconds(at - doc.startTime) ELSE @]

\* io.on('connection'): the registry entry is created with the socket
ConnectA(s) ==
  /\ impl = "A"
  /\ sockState[s] = "new"
  /\ sockState' = [sockState EXCEPT ![s] = "open"]
  /\ connOrder' = Append(connOrder, s)
  /\ sessionData' = [sessionData EXCEPT ![s] =
       [currentEvent |-> None, lastActivity |-> clock]]
  /\ activeSessions' = activeSessions \cup {s}
  /\ UNCHANGED <<timeVars, ops, rooms, logs, inflight, done, regB>>

\* The registry entries of room e, as join-event and getActiveSessionsForEvent
\* filter them
RoomEntriesA(act, sd, e) == {u \in act : sd[u].currentEvent = e}

\* join-event, synchronous prefix: leave the previous room and tell its
\* members, join the new one, then await CursorLog.findOne
JoinEventA(s, e) ==
  /\ impl = "A" /\ Budget
  /\ sockState[s] = "open"
  /\ LET prev == sessionData[s].currentEvent
         left == IF prev # None THEN [rooms EXCEPT ![s] = @ \ {prev}] ELSE rooms
         out1 == IF prev # None
                 THEN <<Msg("user-left", prev, s, SocketTo(left, prev, s), 0)>>
                 ELSE <<>>
     IN /\ rooms' = [left EXCEPT ![s] = @ \cup {e}]
        /\ sessionData' = [sessionData EXCEPT ![s].currentEvent = e,
                                              ![s].lastActivity = clock]
        /\ inflight' = Append(inflight,
             [Task("join", s, e) EXCEPT !.sid = s, !.out = out1, !.prev = prev])
  /\ ops' = ops - 1
  /\ UNCHANGED <<timeVars, sockState, connOrder, activeSessions, logs, done, regB>>

\* A variant of the reply whose list does not leave out the caller
JoinReplyWithCallerA(t) ==
  LET others == RoomEntriesA(activeSessions, sessionData, t.ev) IN
  [t EXCEPT !.res = "joined",
            !.out = t.out \o
              <<Msg("user-joined", t.ev, t.sock, SocketTo(rooms, t.ev, t.sock), 0),
                Msg("active-users", None, t.sock, SocketEmit(t.sock), others),
                Msg("joined-event", None, t.sock, SocketEmit(t.sock),
                    Cardinality(others) + 1)>>]

\* the tail of join-event: user-joined to the room, the list of other
\* entries and the count to the caller
JoinReplyA(t) ==
  LET others == RoomEntriesA(activeSessions, sessionData, t.ev) \ {t.sock} IN
  [t EXCEPT !.res = "joined",
            !.out = t.out \o
              <<Msg("user-joined", t.ev, t.sock, SocketTo(rooms, t.ev, t.sock), 0),
                Msg("active-users", None, t.sock, SocketEmit(t.sock), others),
                Msg("joined-event", None, t.sock, SocketEmit(t.sock),
                    Cardinality(others) + 1)>>]

JoinErrorA(t) ==
  [t EXCEPT !.res = "error",
            !.out = Append(t.out, Msg("error", None, t.sock, SocketEmit(t.sock), 0))]

\* join-event after findOne returns
JoinFindA(i) ==
  /\ impl = "A"
  /\ i \in 1..Len(inflight)
  /\ inflight[i].kind = "join" /\ inflight[i].pc = "find"
  /\ LET t == inflight[i] IN
     \E ok \in BOOLEAN :
       IF ~ok THEN Finish(i, JoinErrorA(t))
       ELSE IF FindActive(t.sid, t.ev) # 0 THEN Finish(i, JoinReplyA(t))
       ELSE /\ inflight' = [inflight EXCEPT ![i] = [t EXCEPT !.pc = "create", !.at = clock]]
            /\ done' = done
  /\ UNCHANGED <<timeVars, ops, sockVars, regA, logs, regB>>

\* join-event after CursorLog.create returns
JoinCreateA(i) ==
  /\ impl = "A"
  /\ i \in 1..Len(inflight)
  /\ inflight[i].kind = "join" /\ inflight[i].pc = "create"
  /\ LET t == inflight[i] IN
     \E ok \in BOOLEAN :
       IF ~ok THEN Finish(i, JoinErrorA(t)) /\ logs' = logs
       ELSE /\ logs' = Append(logs, NewRowA(t.sid, t.ev, t.at))
            /\ Finish(i, JoinReplyA(t))
  /\ UNCHANGED <<timeVars, ops, sockVars, regA, regB>>

\* ------------------------------------------------ interaction handlers (A)
Relayed == {"cursor-move", "cursor-click"}
RelayName(kind) == IF kind = "cursor-move" THEN "cursor-update" ELSE kind

\* The synchronous prefix shared by cursor-move, cursor-click, page-scroll,
\* page-visit and cursor-hover: the room check, the liveness touch, the
\* relay (move and click only), then the persistence decision.  persist is
\* the outcome of Math.random() < 0.1 for cursor-move and TRUE otherwise.
InteractA(s, kind, e, arg, persist) ==
  /\ impl = "A" /\ Budget
  /\ sockState[s] = "open"
  /\ ops' = ops - 1
  /\ IF sessionData[s].currentEvent = None \/ sessionData[s].currentEvent # e
     THEN /\ done' = Result([Task(kind, s, e) EXCEPT !.sid = s, !.arg = arg,
                                                     !.res = "dropped"])
          /\ UNCHANGED <<sessionData, inflight>>
     ELSE LET out1 == IF kind \in Relayed
                      THEN <<Msg(RelayName(kind), e, s, SocketTo(rooms, e, s), 0)>>
                      ELSE <<>>
              t == [Task(kind, s, e) EXCEPT !.sid = s, !.arg = arg, !.out = out1]
          IN /\ sessionData' = [sessionData EXCEPT ![s].lastActivity = clock]
             /\ IF persist
                THEN inflight' = Append(inflight, t) /\ done' = done
                ELSE inflight' = inflight
                     /\ done' = Result([t EXCEPT !.res = "skipped"])
  /\ UNCHANGED <<timeVars, sockVars, activeSessions, logs, regB>>

CursorMoveA(s, e) ==
  \E sampled \in BOOLEAN, x \in Xs, y \in Ys, p \in Pages :
    InteractA(s, "cursor-move", e,
              [NoArg EXCEPT !.action = "move", !.x = x, !.y = y, !.page = p], sampled)

\* cursor-move whose data carries no x
CursorMoveMissingA(s, e) ==
  \E sampled \in BOOLEAN, y \in Ys, p \in Pages :
    InteractA(s, "cursor-move", e,
              [NoArg EXCEPT !.action = "move", !.x = Missing, !.y = y, !.page = p],
              sampled)

CursorClickA(s, e) ==
  \E x \in Xs, y \in Ys, p \in Pages :
    InteractA(s, "cursor-click", e,
              [NoArg EXCEPT !.action = "click", !.x = x, !.y = y, !.page = p], TRUE)

PageScrollA(s, e) ==
  \E p \in Pages, d \in Depths :
    InteractA(s, "page-scroll", e, [NoArg EXCEPT !.page = p, !.depth = d], TRUE)

PageVisitA(s, e) ==
  \E p \in Pages, ts \in TimesSpent :
    InteractA(s, "page-visit", e, [NoArg EXCEPT !.page = p, !.timeSpent = ts], TRUE)

CursorHoverA(s, e) ==
  \E p \in Pages :
    InteractA(s, "cursor-hover", e, [NoArg EXCEPT !.page = p], TRUE)

InteractKindsA == {"cursor-move", "cursor-click", "page-scroll", "page-visit", "cursor-hover"}

\* what the handler's model method writes when its save() lands
ApplyA(t, cur) ==
  CASE t.kind \in {"cursor-move", "cursor-click"} ->
         addCursorMovement(cur, t.snap, t.arg.x, t.arg.y, t.arg.page,
                           t.arg.action, t.at)
    [] t.kind = "page-scroll" -> updateScrollDepth(cur, t.snap, t.arg.page, t.arg.depth, t.at)
    [] t.kind = "page-visit" -> addPageVisit(cur, t.snap, t.arg.page, t.arg.timeSpent, t.at)
    [] t.kind = "cursor-hover" -> addHoverData(cur, t.snap, t.at)
    [] OTHER -> endSessionA(cur, t.snap, t.at)

\* an interaction handler after CursorLog.findOne returns
InteractFindA(i) ==
  /\ impl = "A"
  /\ i \in 1..Len(inflight)
  /\ inflight[i].kind \in InteractKindsA /\ inflight[i].pc = "find"
  /\ LET t == inflight[i]
         r == FindActive(t.sid, t.ev)
     IN \E ok \in BOOLEAN :
       IF ~ok THEN Finish(i, [t EXCEPT !.res = "error"])
       ELSE IF r = 0 THEN Finish(i, [t EXCEPT !.res = "nolog"])
       ELSE /\ inflight' = [inflight EXCEPT ![i] =
                 [t EXCEPT !.pc = "save", !.row = r, !.snap = logs[r], !.at = clock]]
            /\ done' = done
  /\ UNCHANGED <<timeVars, ops, sockVars, regA, logs, regB>>

\* the sizes of the row's arrays: a save that pushes to one of them raises
\* the document's version key
ArraySizes(row) ==
  <<Len(row.cursorData), Len(row.clicks), row.hovers,
    Len(row.scrollDepth), Len(row.pagesVisited)>>

\* save() of a change to an element of an array (scrollDepth[k].maxDepth,
\* pagesVisited[k].timeSpent) carries the version key the document was read
\* with and is rejected once a push has raised it
VersionConflict(t, cur) ==
  /\ \/ /\ t.kind = "page-scroll"
        /\ FirstPage(t.snap.scrollDepth, t.arg.page) # 0
        /\ t.arg.depth > t.snap.scrollDepth[FirstPage(t.snap.scrollDepth, t.arg.page)].maxDepth
     \/ /\ t.kind = "page-visit"
        /\ FirstPage(t.snap.pagesVisited, t.arg.page) # 0
  /\ ArraySizes(cur) # ArraySizes(t.snap)

\* document validation in save(): x of a cursorData sample is required
ValidSample(t) == t.kind \in {"cursor-move", "cursor-click"} => t.arg.x # Missing

\* A variant of the handler without its try/catch: a rejected save ends the
\* connection
InteractSaveUncaughtA(i) ==
  /\ impl = "A"
  /\ i \in 1..Len(inflight)
  /\ inflight[i].kind \in InteractKindsA /\ inflight[i].pc = "save"
  /\ LET t == inflight[i] IN
     \E ok \in BOOLEAN :
       IF ~ok \/ VersionConflict(t, logs[t.row]) \/ ~ValidSample(t)
       THEN /\ Finish(i, [t EXCEPT !.res = "error"])
            /\ logs' = logs
            /\ sockState' = [sockState EXCEPT ![t.sock] = "closed"]
            /\ rooms' = [rooms EXCEPT ![t.sock] = {}]
       ELSE /\ logs' = [logs EXCEPT ![t.row] = ApplyA(t, @)]
            /\ Finish(i, [t EXCEPT !.res = "saved"])
            /\ UNCHANGED <<sockState, rooms>>
  /\ UNCHANGED <<timeVars, ops, connOrder, regA, regB>>

\* an interaction handler after the model method's save() returns
InteractSaveA(i) ==
  /\ impl = "A"
  /\ i \in 1..Len(inflight)
  /\ inflight[i].kind \in InteractKindsA /\ inflight[i].pc = "save"
  /\ LET t == inflight[i] IN
     \E ok \in BOOLEAN :
       IF ~ok \/ VersionConflict(t, logs[t.row]) \/ ~ValidSample(t)
       THEN /\ Finish(i, [t EXCEPT !.res = "error"])
                   /\ logs' = logs
       ELSE /\ logs' = [logs EXCEPT ![t.row] = ApplyA(t, @)]
            /\ Finish(i, [t EXCEPT !.res = "saved"])
  /\ UNCHANGED <<timeVars, ops, sockVars, regA, regB>>

\* ------------------------------------------------------------ disconnect (A)
\* A variant of the disconnect handler that reads the closure's sessionData
\* instead of activeSessions.get(socket.id)
DisconnectFromClosureA(s) ==
  /\ impl = "A"
  /\ sockState[s] = "open"
  /\ sockState' = [sockState EXCEPT ![s] = "closed"]
  /\ rooms' = [rooms EXCEPT ![s] = {}]
  /\ LET e == sessionData[s].currentEvent
         rm == [rooms EXCEPT ![s] = {}]
         st == [sockState EXCEPT ![s] = "closed"]
         to == {u \in Sockets \ {s} : st[u] = "open" /\ e \in rm[u]}
     IN IF e # None
        THEN /\ inflight' = Append(inflight,
                  [Task("disconnect", s, e) EXCEPT !.sid = s,
                       !.out = <<Msg("user-left", e, s, to, 0)>>])
             /\ UNCHANGED <<activeSessions, done>>
        ELSE /\ activeSessions' = activeSessions \ {s}
             /\ done' = Result([Task("disconnect", s, e) EXCEPT !.sid = s,
                                                                !.res = "removed"])
             /\ inflight' = inflight
  /\ UNCHANGED <<timeVars, ops, connOrder, sessionData, logs, regB>>

\* The transport closes: socket.io takes the socket out of every room, then
\* the disconnect handler runs up to its first await.
DisconnectA(s) ==
  /\ impl = "A"
  /\ sockState[s] = "open"
  /\ sockState' = [sockState EXCEPT ![s] = "closed"]
  /\ rooms' = [rooms EXCEPT ![s] = {}]
  /\ LET e == sessionData[s].currentEvent
         rm == [rooms EXCEPT ![s] = {}]
         st == [sockState EXCEPT ![s] = "closed"]
         to == {u \in Sockets \ {s} : st[u] = "open" /\ e \in rm[u]}
     IN IF s \in activeSessions /\ e # None
        THEN /\ inflight' = Append(inflight,
                  [Task("disconnect", s, e) EXCEPT !.sid = s,
                       !.out = <<Msg("user-left", e, s, to, 0)>>])
             /\ UNCHANGED <<activeSessions, done>>
        ELSE /\ activeSessions' = activeSessions \ {s}
             /\ done' = Result([Task("disconnect", s, e) EXCEPT !.sid = s,
                                                                !.res = "removed"])
             /\ inflight' = inflight
  /\ UNCHANGED <<timeVars, ops, connOrder, sessionData, logs, regB>>

\* disconnect after findOne returns: a failure skips the rest of the try
\* block, activeSessions.delete included
DisconnectFindA(i) ==
  /\ impl = "A"
  /\ i \in 1..Len(inflight)
  /\ inflight[i].kind = "disconnect" /\ inflight[i].pc = "find"
  /\ LET t == inflight[i]
         r == FindActive(t.sid, t.ev)
     IN \E ok \in BOOLEAN :
       IF ~ok THEN /\ Finish(i, [t EXCEPT !.res = "error"])
                   /\ activeSessions' = activeSessions
       ELSE IF r = 0
       THEN /\ Finish(i, [t EXCEPT !.res = "removed"])
            /\ activeSessions' = activeSessions \ {t.sock}
       ELSE /\ inflight' = [inflight EXCEPT ![i] =
                 [t EXCEPT !.pc = "save", !.row = r, !.snap = logs[r], !.at = clock]]
            /\ UNCHANGED <<done, activeSessions>>
  /\ UNCHANGED <<timeVars, ops, sockVars, sessionData, logs, regB>>

\* disconnect after endSession's save returns
DisconnectSaveA(i) ==
  /\ impl = "A"
  /\ i \in 1..Len(inflight)
  /\ inflight[i].kind = "disconnect" /\ inflight[i].pc = "save"
  /\ LET t == inflight[i] IN
     \E ok \in BOOLEAN :
       IF ~ok THEN /\ Finish(i, [t EXCEPT !.res = "error"])
                   /\ UNCHANGED <<logs, activeSessions>>
       ELSE /\ logs' = [logs EXCEPT ![t.row] = endSessionA(@, t.snap, t.at)]
            /\ activeSessions' = activeSessions \ {t.sock}
            /\ Finish(i, [t EXCEPT !.res = "removed"])
  /\ UNCHANGED <<timeVars, ops, sockVars, sessionData, regB>>

\* --------------------------------------------------------------- sweeper (A)
\* The for-of loop over activeSessions.entries() from position pos, run up
\* to its next await.  Entries are visited in insertion order (connOrder);
\* now is the time read once when the sweep started.  A stale entry with no
\* room is deleted on the spot; a stale entry in a room gets its user-left
\* emitted with io.to and the loop then awaits findOne for it (cur).
RECURSIVE SweepScan(_, _, _, _)
SweepScan(pos, now, act, out) ==
  IF pos > Len(connOrder) THEN [cur |-> None, pos |-> pos, act |-> act, out |-> out]
  ELSE LET s == connOrder[pos]
           e == sessionData[s].currentEvent
       IN IF s \notin act \/ ~(now - sessionData[s].lastActivity > inactiveThreshold)
          THEN SweepScan(pos + 1, now, act, out)
          ELSE IF e = None
          THEN SweepScan(pos + 1, now, act \ {s}, out)
          ELSE [cur |-> s, pos |-> pos, act |-> act,
                out |-> Append(out, Msg("user-left", e, s, IoTo(rooms, e), 0))]

\* the loop goes on from position pos in task t; the handler ends when the
\* loop does
SweepOn(i, t, pos, act) ==
  LET r == SweepScan(pos, t.now, act, t.out) IN
  /\ activeSessions' = r.act
  /\ IF r.cur = None
     THEN /\ done' = Result([t EXCEPT !.res = "swept", !.out = r.out,
                                      !.gone = t.gone \cup (activeSessions \ r.act)])
          /\ inflight' = IF i = 0 THEN inflight ELSE RemoveAt(inflight, i)
     ELSE LET t2 == [t EXCEPT !.pc = "find", !.sock = r.cur, !.sid = r.cur,
                              !.ev = sessionData[r.cur].currentEvent,
                              !.out = r.out, !.pos = r.pos,
                              !.gone = t.gone \cup (activeSessions \ r.act)]
          IN /\ done' = done
             /\ inflight' = IF i = 0 THEN Append(inflight, t2)
                            ELSE [inflight EXCEPT ![i] = t2]

\* setInterval callback
SweepA ==
  /\ impl = "A" /\ Budget
  /\ ops' = ops - 1
  /\ SweepOn(0, [Task("sweep", None, None) EXCEPT !.now = clock], 1, activeSessions)
  /\ UNCHANGED <<timeVars, sockVars, sessionData, logs, regB>>

\* the sweep after findOne returns for the entry it is on; a failure leaves
\* the loop through the catch around it
SweepFindA(i) ==
  /\ impl = "A"
  /\ i \in 1..Len(inflight)
  /\ inflight[i].kind = "sweep" /\ inflight[i].pc = "find"
  /\ LET t == inflight[i]
         r == FindActive(t.sid, t.ev)
     IN \E ok \in BOOLEAN :
       IF ~ok THEN /\ Finish(i, [t EXCEPT !.res = "error"])
                   /\ activeSessions' = activeSessions
       ELSE IF r = 0
       THEN SweepOn(i, t, t.pos + 1, activeSessions \ {t.sock})
       ELSE /\ inflight' = [inflight EXCEPT ![i] =
                 [t EXCEPT !.pc = "save", !.row = r, !.snap = logs[r], !.at = clock]]
            /\ UNCHANGED <<done, activeSessions>>
  /\ UNCHANGED <<timeVars, ops, sockVars, sessionData, logs, regB>>

\* the sweep after endSession's save returns
SweepSaveA(i) ==
  /\ impl = "A"
  /\ i \in 1..Len(inflight)
  /\ inflight[i].kind = "sweep" /\ inflight[i].pc = "save"
  /\ LET t == inflight[i] IN
     \E ok \in BOOLEAN :
       IF ~ok THEN /\ Finish(i, [t EXCEPT !.res = "error"])
                   /\ UNCHANGED <<logs, activeSessions>>
       ELSE /\ logs' = [logs EXCEPT ![t.row] = endSessionA(@, t.snap, t.at)]
            /\ SweepOn(i, t, t.pos + 1, activeSessions \ {t.sock})
  /\ UNCHANGED <<timeVars, ops, sockVars, sessionData, regB>>

\* ------------------------------------------- POST /api/cursor/session (A)
\* createOrUpdateSession up to the return of findOne: nothing is written
\* before it, so the request starts at that read
createOrUpdateSession(sid, e) ==
  /\ impl = "A" /\ Budget
  /\ ops' = ops - 1
  /\ LET t == [Task("session", None, e) EXCEPT !.sid = sid, !.at = clock]
         r == FindActive(sid, e)
     IN \E ok \in BOOLEAN :
       IF ~ok THEN done' = Result([t EXCEPT !.res = "500"]) /\ inflight' = inflight
       ELSE /\ done' = done
            /\ inflight' = Append(inflight,
                 IF r = 0 THEN [t EXCEPT !.pc = "create"]
                 ELSE [t EXCEPT !.pc = "save", !.row = r, !.snap = logs[r]])
  /\ UNCHANGED <<timeVars, sockVars, regA, logs, regB>>

\* createOrUpdateSession after CursorLog.create / save returns
SessionWriteA(i) ==
  /\ impl = "A"
  /\ i \in 1..Len(inflight)
  /\ inflight[i].kind = "session"
  /\ LET t == inflight[i] IN
     \E ok \in BOOLEAN :
       IF ~ok THEN /\ Finish(i, [t EXCEPT !.res = "500"])
                   /\ logs' = logs
       ELSE /\ logs' = IF t.pc = "create"
                       THEN Append(logs, NewRowA(t.sid, t.ev, t.at))
                       ELSE [logs EXCEPT ![t.row].lastActivity = t.at]
            /\ Finish(i, [t EXCEPT !.res = "200",
                                   !.row = IF t.pc = "create" THEN Len(logs) + 1 ELSE t.row])
  /\ UNCHANGED <<timeVars, ops, sockVars, regA, regB>>

\* ------------------------------------- GET active sessions of an event (A)
\* getActiveSessionsForEvent: the entries of the activeSessions Map whose
\* currentEvent is the event, in the Map's order
getActiveSessionsForEvent(e) ==
  LET InRoomOf(s) == s \in activeSessions /\ sessionData[s].currentEvent = e
      ids == SelectSeq(connOrder, InRoomOf)
  IN [k \in 1..Len(ids) |->
        [sessionId |-> ids[k], lastActivity |-> sessionData[ids[k]].lastActivity]]

\* cursorLogSchema.statics.getActiveSessions: the rows of the event that are
\* active and were touched within the window before the call (now)
getActiveSessions(rows, e, now) ==
  LET Recent(r) == /\ rows[r].eventId = e
                   /\ rows[r].isActive
                   /\ rows[r].lastActivity >= now - activeWindow
      idx == SelectSeq([k \in 1..Len(rows) |-> k], Recent)
  IN [k \in 1..Len(idx) |->
        [sessionId |-> rows[idx[k]].sessionId,
         lastActivity |-> rows[idx[k]].lastActivity]]

WithSource(seq, source) ==
  [k \in 1..Len(seq) |->
     [sessionId |-> seq[k].sessionId, lastActivity |-> seq[k].lastActivity,
      source |-> source]]

\* A variant of the merge that lists every entry of both sources
MergeSessionsNoDedup(mem, db) ==
  WithSource(mem, "memory") \o WithSource(db, "database")

\* dbSessions.forEach: a row is added unless its sessionId is in the Map
RECURSIVE MergeDb(_, _)
MergeDb(acc, db) ==
  IF db = <<>> THEN acc
  ELSE MergeDb(IF \E k \in 1..Len(acc) : acc[k].sessionId = Head(db).sessionId
               THEN acc
               ELSE acc \o WithSource(<<Head(db)>>, "database"),
               Tail(db))

\* the sessionMap of getActiveSessions: the memory sessions first, then the
\* database sessions whose sessionId is not yet a key
MergeSessions(mem, db) == MergeDb(WithSource(mem, "memory"), db)

\* getActiveSessions up to the await: the registry is read and the query
\* built (its time bound is taken now)
GetActiveSessionsA(e) ==
  /\ impl = "A" /\ Budget
  /\ ops' = ops - 1
  /\ inflight' = Append(inflight,
       [Task("active-sessions", None, e) EXCEPT
          !.out = getActiveSessionsForEvent(e), !.now = clock])
  /\ UNCHANGED <<timeVars, sockVars, regA, regB, logs, done>>

\* getActiveSessions after CursorLog.getActiveSessions returns
GetActiveSessionsFindA(i) ==
  /\ impl = "A"
  /\ i \in 1..Len(inflight)
  /\ inflight[i].kind = "active-sessions"
  /\ LET t == inflight[i] IN
     \E ok \in BOOLEAN :
       IF ~ok THEN Finish(i, [t EXCEPT !.res = "500", !.out = <<>>])
       ELSE Finish(i, [t EXCEPT !.res = "200",
                      !.out = MergeSessions(t.out, getActiveSessions(logs, t.ev, t.now))])
  /\ UNCHANGED <<timeVars, ops, sockVars, regA, regB, logs>>

\* what the clients of backend A on the sockets SS, naming the events EE,
\* and its timers start
OpsOnA(SS, EE) ==
  \/ Tick
  \/ \E s \in SS : ConnectA(s) \/ DisconnectA(s)
  \/ \E s \in SS, e \in EE :
       \/ JoinEventA(s, e)
       \/ CursorMoveA(s, e) \/ CursorClickA(s, e)
       \/ PageScrollA(s, e) \/ PageVisitA(s, e) \/ CursorHoverA(s, e)
  \/ SweepA
  \/ \E sid \in RestSessionIds, e \in EE : createOrUpdateSession(sid, e)

\* a handler of backend A resumes after an await
StepsA ==
  \E i \in Slots :
    \/ JoinFindA(i) \/ JoinCreateA(i)
    \/ InteractFindA(i) \/ InteractSaveA(i)
    \/ DisconnectFindA(i) \/ DisconnectSaveA(i)
    \/ SweepFindA(i) \/ SweepSaveA(i)
    \/ SessionWriteA(i)

\* backend A with its clients on the sockets SS, naming the events EE
NextOnA(SS, EE) == OpsOnA(SS, EE) \/ StepsA

NextA == NextOnA(Sockets, Events)

InitA == Base /\ impl = "A" /\ ops = MaxOpsA
SpecA == InitA /\ [][NextA]_vars

\* Backend A with one client on one event, every message, request and
\* timer handled to its end before the next one starts
NextSerialA ==
  \/ inflight = <<>> /\ OpsOnA(OneSocket, OneEvent)
  \/ StepsA
InitSerialA == Base /\ impl = "A" /\ ops = MaxOpsTrack
SpecSerialA == InitSerialA /\ [][NextSerialA]_vars

\* Backend A with two clients that connect and join the event, sessions
\* written over REST, and a client of the active-sessions listing
NextListA ==
  \/ Tick
  \/ \E s \in Sockets : ConnectA(s)
  \/ \E s \in Sockets, e \in OneEvent : JoinEventA(s, e)
  \/ \E sid \in RestSessionIds, e \in OneEvent : createOrUpdateSession(sid, e)
  \/ \E e \in OneEvent : GetActiveSessionsA(e)
  \/ \E i \in Slots :
       \/ JoinFindA(i) \/ JoinCreateA(i)
       \/ SessionWriteA(i)
       \/ GetActiveSessionsFindA(i)
InitListA == Base /\ impl = "A" /\ ops = MaxOps
SpecListA == InitListA /\ [][NextListA]_vars

\* Backend A with two clients on one event, every message, request and
\* timer handled to its end before the next one starts
NextRejoinA ==
  \/ inflight = <<>> /\ OpsOnA(Sockets, OneEvent)
  \/ StepsA
InitRejoinA == Base /\ impl = "A" /\ ops = MaxOps
SpecRejoinA == InitRejoinA /\ [][NextRejoinA]_vars

\* Backend A with one client that joins either event and disconnects, and
\* the sweeper; no interactions and no REST writes
NextSocketA ==
  \/ Tick
  \/ \E s \in OneSocket : ConnectA(s) \/ DisconnectA(s)
  \/ \E s \in OneSocket, e \in Events : JoinEventA(s, e)
  \/ SweepA
  \/ \E i \in Slots :
       \/ JoinFindA(i) \/ JoinCreateA(i)
       \/ DisconnectFindA(i) \/ DisconnectSaveA(i)
       \/ SweepFindA(i) \/ SweepSaveA(i)
InitSocketA == Base /\ impl = "A" /\ ops = MaxOps
SpecSocketA == InitSocketA /\ [][NextSocketA]_vars

\* Backend A with two clients that join the event, the first of which
\* disconnects, and the sweeper; no interactions and no REST writes
NextLeftA ==
  \/ Tick
  \/ \E s \in Sockets : ConnectA(s)
  \/ \E s \in OneSocket : DisconnectA(s)
  \/ \E s \in Sockets, e \in OneEvent : JoinEventA(s, e)
  \/ SweepA
  \/ \E i \in Slots :
       \/ JoinFindA(i) \/ JoinCreateA(i)
       \/ DisconnectFindA(i) \/ DisconnectSaveA(i)
       \/ SweepFindA(i) \/ SweepSaveA(i)
InitLeftA == Base /\ impl = "A" /\ ops = MaxOps
SpecLeftA == InitLeftA /\ [][NextLeftA]_vars

\* Backend A with one client on one event, its handlers interleaving
NextTrackA == NextOnA(OneSocket, OneEvent)
InitTrackA == Base /\ impl = "A" /\ ops = MaxOps
SpecTrackA == InitTrackA /\ [][NextTrackA]_vars

\* Backend A with one client whose messages and requests name the event e1
\* or an id that no document of the Event collection has
UnknownEvents == {"e0"}
NextStrayA == NextOnA({"s1"}, {"e1"} \cup UnknownEvents)
SpecStrayA == InitA /\ [][NextStrayA]_vars

\* ---------------------------------------------------------- heatmap query
\* The clicks, page filters and resolutions of the heatmap queries
HeatXs == {5, 15, 25}
HeatPages == {"p1", "p2"}
Resolutions == {10, 20}
MaxHeatClicks == 2

RECURSIVE Sum(_, _)
Sum(f, S) ==
  IF S = {} THEN 0
  ELSE LET a == CHOOSE a \in S : TRUE IN f[a] + Sum(f, S \ {a})

\* $avg over the clicks S of a group, kept exact as <<sum, count>>
Avg(f, S) == <<Sum(f, S), Cardinality(S)>>

\* { $match: matchConditions }: the documents of the event that hold at
\* least one click on the page when a page is given (no date range given)
HeatMatch(rows, eventId, page) ==
  {r \in 1..Len(rows) :
     /\ rows[r].eventId = eventId
     /\ page # None => \E k \in 1..Len(rows[r].clicks) : rows[r].clicks[k].page = page}

\* { $unwind: '$heatmapData.clicks' }: every click of the matched documents
HeatUnwind(rows, eventId, page) ==
  UNION {{<<r, k>> : k \in 1..Len(rows[r].clicks)} : r \in HeatMatch(rows, eventId, page)}

\* the _id of the $group stage
HeatGroupId(c) == [x |-> c.x \div heatmapGrid, y |-> c.y \div heatmapGrid, page |-> c.page]

\* { $group: ... }: one item per _id with its count and averages
HeatGroups(rows, eventId, page) ==
  LET U == HeatUnwind(rows, eventId, page)
      click == [rk \in U |-> rows[rk[1]].clicks[rk[2]]]
      ids == {HeatGroupId(click[rk]) : rk \in U}
      of(id) == {rk \in U : HeatGroupId(click[rk]) = id}
  IN {[id |-> id, count |-> Cardinality(of(id)),
       avgX |-> Avg([rk \in U |-> click[rk].x], of(id)),
       avgY |-> Avg([rk \in U |-> click[rk].y], of(id))] : id \in ids}

\* { $sort: { count: -1 } }: the orders the sort can leave the items in,
\* items of equal count in any order
SortByCount(S) ==
  {q \in [1..Cardinality(S) -> S] :
     /\ \A j \in DOMAIN q, k \in DOMAIN q : j # k => q[j] # q[k]
     /\ \A j \in DOMAIN q, k \in DOMAIN q : j < k => q[j].count >= q[k].count}

\* cursorLogSchema.statics.getHeatmapData: the results the aggregate can give
getHeatmapData(rows, eventId, page) == SortByCount(HeatGroups(rows, eventId, page))

\* GET heatmap of routes/cursorRoutes.js: getHeatmapData and the mapping
\* of its items to the response
GetHeatmapA(e, page, resolution) ==
  /\ impl = "A"
  /\ \E ok \in BOOLEAN :
       IF ~ok
       THEN done' = [NoResult EXCEPT !.kind = "heatmap", !.ev = e, !.res = "500"]
       ELSE \E items \in getHeatmapData(logs, e, page) :
              done' = [NoResult EXCEPT
                         !.kind = "heatmap", !.ev = e, !.res = "200",
                         !.val = resolution,
                         !.out = [k \in 1..Len(items) |->
                                    [x |-> items[k].avgX, y |-> items[k].avgY,
                                     value |-> items[k].count,
                                     page |-> items[k].id.page,
                                     gridX |-> items[k].id.x * resolution,
                                     gridY |-> items[k].id.y * resolution]]]
  /\ UNCHANGED <<timeVars, ops, sockVars, regA, regB, logs, inflight>>

\* Backend A holding one SessionLog with recorded clicks, answering heatmap
\* queries
HeatRows ==
  {[NewRowA("s1", "e1", 0) EXCEPT !.clicks = cs,
                                  !.totalClicks = Len(cs),
                                  !.cursorData = [k \in 1..Len(cs) |-> "click"]] :
     cs \in UNION {[1..n -> [x : HeatXs, y : Ys, page : HeatPages]] :
                     n \in 1..MaxHeatClicks}}
InitHeatmap ==
  /\ impl = "A" /\ ops = 0
  /\ clock = 0 /\ ticks = 0
  /\ sockState = [s \in Sockets |-> "new"]
  /\ connOrder = <<>>
  /\ rooms = [s \in Sockets |-> {}]
  /\ sessionData = [s \in Sockets |-> NoEntryA]
  /\ activeSessions = {}
  /\ \E row \in HeatRows : logs = <<row>>
  /\ inflight = <<>>
  /\ done = NoResult
  /\ activeConnections = [s \in Sockets |-> NoEntryB]
  /\ eventRooms = [e \in Events |-> {}]
NextHeatmap ==
  \E e \in Events, page \in HeatPages \cup {None}, resolution \in Resolutions :
    GetHeatmapA(e, page, resolution)
SpecHeatmap == InitHeatmap /\ [][NextHeatmap]_vars

\* ======================================================================
\* Backend B: setupSocketHandlers of server.js, the flat CursorLog model,
\* routes/cursor.js.  Rows use the field names of backend A: startTime is
\* sessionStart, endTime is sessionEnd, duration is totalDuration.
\* ======================================================================

HasEntryB(ac, s) == ac[s].eventId # None

\* the last n elements of a sequence: Array.prototype.slice(-n)
LastN(seq, n) == IF Len(seq) <= n THEN seq ELSE SubSeq(seq, Len(seq) - n + 1, Len(seq))

\* new CursorLog({...}) in POST /start-session: sessionStart defaults to now
NewRowB(sid, e, at) ==
  [NoRow EXCEPT !.sessionId = sid, !.eventId = e, !.isActive = TRUE, !.startTime = at,
                !.createdAt = at]

\* A variant of the save that writes back the whole document the handler read
addCursorMovementWholeDocB(cur, doc, action) ==
  [doc EXCEPT !.cursorData = LastN(Append(doc.cursorData, action), cursorCap)]

\* cursorLogSchema.methods.addCursorMovement (flat model) followed by save():
\* a push, or a $set of the sliced array once the document holds 1000
addCursorMovementB(cur, doc, action) ==
  IF Len(doc.cursorData) + 1 > cursorCap
  THEN [cur EXCEPT !.cursorData = LastN(Append(doc.cursorData, action), cursorCap)]
  ELSE [cur EXCEPT !.cursorData = Append(@, action)]

\* cursorLogSchema.methods.addInteraction
addInteraction(cur) == [cur EXCEPT !.interactions = @ + 1]

\* the sessionDuration virtual, read with sessionEnd just set
sessionDuration(start, end, total) ==
  IF end # NullTime /\ start # NullTime THEN RoundSeconds(end - start)
  ELSE IF total = NullTime THEN 0 ELSE total

\* cursorLogSchema.methods.endSession (flat model) followed by save()
endSessionB(cur, doc, at) ==
  [cur EXCEPT !.endTime = at, !.isActive = FALSE,
              !.duration = sessionDuration(doc.startTime, at, doc.duration)]

ConnectB(s) ==
  /\ impl = "B"
  /\ sockState[s] = "new"
  /\ sockState' = [sockState EXCEPT ![s] = "open"]
  /\ UNCHANGED <<timeVars, ops, connOrder, rooms, regA, regB, logs, inflight, done>>

\* join-event up to await Event.findById
JoinEventB(s, e, sid) ==
  /\ impl = "B" /\ Budget
  /\ sockState[s] = "open"
  /\ ops' = ops - 1
  /\ inflight' = Append(inflight, [Task("join", s, e) EXCEPT !.sid = sid, !.pc = "lookup"])
  /\ UNCHANGED <<timeVars, sockVars, regA, regB, logs, done>>

\* join-event after Event.findById returns: join the socket.io room, store
\* the connection, track the room, notify
JoinLookupB(i) ==
  /\ impl = "B"
  /\ i \in 1..Len(inflight)
  /\ inflight[i].kind = "join" /\ inflight[i].pc = "lookup"
  /\ LET t == inflight[i]
         s == t.sock
         e == t.ev
         rm == [rooms EXCEPT ![s] = @ \cup {e}]
         er == [eventRooms EXCEPT ![e] = @ \cup {s}]
     IN \E ok \in BOOLEAN :
       IF ~ok
       THEN /\ Finish(i, [t EXCEPT !.res = "error",
                 !.out = <<Msg("error", None, s, SocketEmit(s), 0)>>])
            /\ UNCHANGED <<rooms, connOrder, regB>>
       ELSE /\ rooms' = rm
            /\ activeConnections' = [activeConnections EXCEPT ![s] =
                 [eventId |-> e, sessionId |-> t.sid, connectedAt |-> clock,
                  lastCursorLog |-> NullTime, gen |-> @.gen + 1]]
            /\ connOrder' = IF HasEntryB(activeConnections, s) THEN connOrder
                            ELSE Append(connOrder, s)
            /\ eventRooms' = er
            /\ Finish(i, [t EXCEPT !.res = "joined",
                 !.prev = activeConnections[s].eventId,
                 !.out = <<Msg("user-joined", e, s, SocketTo(rm, e, s), 0),
                           Msg("active-users-update", e, s, IoTo(rm, e),
                               Cardinality(er[e]))>>])
  /\ UNCHANGED <<timeVars, ops, sockState, regA, logs>>

RelayedB == {"cursor-move", "user-interaction"}

\* now - lastLog > 1000 with lastLog = connection.lastCursorLog || 0: an
\* unset lastCursorLog compares the wall clock against the epoch
ThrottlePass(now, lastLog) == lastLog = NullTime \/ now - lastLog > throttleMs

\* A variant of the prefix that relays only what it goes on to persist: the
\* relay sits behind the connection check and the throttle
InteractRelayIfLoggedB(s, kind, e, sid, arg) ==
  /\ impl = "B" /\ Budget
  /\ sockState[s] = "open"
  /\ ops' = ops - 1
  /\ LET out1 == IF kind \in RelayedB
                 THEN <<Msg(kind, e, s, SocketTo(rooms, e, s), 0)>> ELSE <<>>
         conn == activeConnections[s]
         t == [Task(kind, s, e) EXCEPT !.sid = sid, !.arg = arg,
                                       !.now = clock, !.gen = conn.gen]
     IN IF kind = "cursor-move" /\ arg.x = Missing
        THEN done' = Result([t EXCEPT !.res = "invalid", !.out = <<>>])
             /\ inflight' = inflight
        ELSE IF ~(HasEntryB(activeConnections, s) /\ conn.eventId = e)
        THEN done' = Result([t EXCEPT !.res = "nopersist"]) /\ inflight' = inflight
        ELSE IF kind = "cursor-move" /\ ~ThrottlePass(clock, conn.lastCursorLog)
        THEN done' = Result([t EXCEPT !.res = "throttled"]) /\ inflight' = inflight
        ELSE done' = done /\ inflight' = Append(inflight, [t EXCEPT !.out = out1])
  /\ UNCHANGED <<timeVars, sockVars, regA, regB, logs>>

\* The synchronous prefix of cursor-move, user-interaction and page-view:
\* the relay to the room named in the message (cursor-move and
\* user-interaction), then the connection check and, for cursor-move, the
\* throttle
InteractB(s, kind, e, sid, arg) ==
  /\ impl = "B" /\ Budget
  /\ sockState[s] = "open"
  /\ ops' = ops - 1
  /\ LET out1 == IF kind \in RelayedB
                 THEN <<Msg(kind, e, s, SocketTo(rooms, e, s), 0)>> ELSE <<>>
         conn == activeConnections[s]
         t == [Task(kind, s, e) EXCEPT !.sid = sid, !.arg = arg, !.out = out1,
                                       !.now = clock, !.gen = conn.gen]
     IN IF kind = "cursor-move" /\ arg.x = Missing
        THEN done' = Result([t EXCEPT !.res = "invalid", !.out = <<>>])
             /\ inflight' = inflight
        ELSE IF ~(HasEntryB(activeConnections, s) /\ conn.eventId = e)
        THEN done' = Result([t EXCEPT !.res = "nopersist"]) /\ inflight' = inflight
        ELSE IF kind = "cursor-move" /\ ~ThrottlePass(clock, conn.lastCursorLog)
        THEN done' = Result([t EXCEPT !.res = "throttled"]) /\ inflight' = inflight
        ELSE done' = done /\ inflight' = Append(inflight, t)
  /\ UNCHANGED <<timeVars, sockVars, regA, regB, logs>>

Actions == {"move", "click"}

CursorMoveB(s, e, sid) ==
  \E a \in Actions : InteractB(s, "cursor-move", e, sid, [NoArg EXCEPT !.action = a])

\* cursor-move whose data carries no x
CursorMoveMissingB(s, e, sid) ==
  InteractB(s, "cursor-move", e, sid, [NoArg EXCEPT !.action = "move", !.x = Missing])

UserInteractionB(s, e, sid) ==
  InteractB(s, "user-interaction", e, sid, [NoArg EXCEPT !.action = "button_click"])

PageViewB(s, e, sid) ==
  \E p \in Pages, d \in TimesSpent :
    InteractB(s, "page-view", e, sid, [NoArg EXCEPT !.page = p, !.timeSpent = d])

InteractKindsB == {"cursor-move", "user-interaction", "page-view"}

\* connection.lastCursorLog = now, on the object the handler read at its
\* start: a later join-event has replaced that object in the map
SetLastCursorLog(ac, t) ==
  IF t.kind = "cursor-move" /\ HasEntryB(ac, t.sock) /\ ac[t.sock].gen = t.gen
  THEN [ac EXCEPT ![t.sock].lastCursorLog = t.now]
  ELSE ac

ApplyB(t, cur) ==
  CASE t.kind = "cursor-move" -> addCursorMovementB(cur, t.snap, t.arg.action)
    [] t.kind = "user-interaction" -> addInteraction(cur)
    [] t.kind = "page-view" ->
         [cur EXCEPT !.pageViews = Append(@, [page |-> t.arg.page,
                                              timeSpent |-> t.arg.timeSpent])]
    [] OTHER -> endSessionB(cur, t.snap, t.at)

\* an interaction handler after CursorLog.findOne returns
InteractFindB(i) ==
  /\ impl = "B"
  /\ i \in 1..Len(inflight)
  /\ inflight[i].kind \in InteractKindsB /\ inflight[i].pc = "find"
  /\ LET t == inflight[i]
         r == FindActive(t.sid, t.ev)
     IN \E ok \in BOOLEAN :
       IF ~ok THEN /\ Finish(i, [t EXCEPT !.res = "error"])
                   /\ activeConnections' = activeConnections
       ELSE IF r = 0
       THEN /\ Finish(i, [t EXCEPT !.res = "nolog"])
            /\ activeConnections' = SetLastCursorLog(activeConnections, t)
       ELSE /\ inflight' = [inflight EXCEPT ![i] =
                 [t EXCEPT !.pc = "save", !.row = r, !.snap = logs[r]]]
            /\ UNCHANGED <<done, activeConnections>>
  /\ UNCHANGED <<timeVars, ops, sockVars, regA, eventRooms, logs>>

\* A variant of the handler that records the time of the sample in a
\* finally block, whether the save succeeded or not
InteractSaveStampsAlwaysB(i) ==
  /\ impl = "B"
  /\ i \in 1..Len(inflight)
  /\ inflight[i].kind \in InteractKindsB /\ inflight[i].pc = "save"
  /\ LET t == inflight[i] IN
     \E ok \in BOOLEAN :
       /\ logs' = IF ok THEN [logs EXCEPT ![t.row] = ApplyB(t, @)] ELSE logs
       /\ activeConnections' = SetLastCursorLog(activeConnections, t)
       /\ Finish(i, [t EXCEPT !.res = IF ok THEN "saved" ELSE "error"])
  /\ UNCHANGED <<timeVars, ops, sockVars, regA, eventRooms>>

\* an interaction handler after cursorLog.save() returns
InteractSaveB(i) ==
  /\ impl = "B"
  /\ i \in 1..Len(inflight)
  /\ inflight[i].kind \in InteractKindsB /\ inflight[i].pc = "save"
  /\ LET t == inflight[i] IN
     \E ok \in BOOLEAN :
       IF ~ok THEN /\ Finish(i, [t EXCEPT !.res = "error"])
                   /\ UNCHANGED <<logs, activeConnections>>
       ELSE /\ logs' = [logs EXCEPT ![t.row] = ApplyB(t, @)]
            /\ activeConnections' = SetLastCursorLog(activeConnections, t)
            /\ Finish(i, [t EXCEPT !.res = "saved"])
  /\ UNCHANGED <<timeVars, ops, sockVars, regA, eventRooms>>

\* ------------------------------------------------------------ disconnect (B)
Without(seq, s) == SelectSeq(seq, LAMBDA x : x # s)

\* The registry part of the state, as one value the disconnect handler and
\* the sweep transform
RegStateB ==
  [ss |-> sockState, rm |-> rooms, ac |-> activeConnections, er |-> eventRooms,
   order |-> connOrder, fl |-> inflight, dn |-> done]

\* The transport of s closes: socket.io takes s out of every room, then the
\* disconnect handler runs up to await CursorLog.findOne.  With an entry it
\* deletes it, takes s out of eventRooms, deletes the room when empty and
\* otherwise sends the new count.
DisconnectStateB(st, s) ==
  LET st1 == [st EXCEPT !.ss[s] = "closed", !.rm[s] = {}]
      conn == st.ac[s]
      e == conn.eventId
  IN IF ~HasEntryB(st.ac, s)
     THEN [st1 EXCEPT !.dn = Result([Task("disconnect", s, None) EXCEPT !.res = "noentry"])]
     ELSE LET members == st.er[e] \ {s}
              out1 == IF st.er[e] # {} /\ members # {}
                      THEN <<Msg("active-users-update", e, s,
                                 InRoomS(st1.ss, st1.rm, e), Cardinality(members))>>
                      ELSE <<>>
          IN [st1 EXCEPT !.ac[s] = [NoEntryB EXCEPT !.gen = conn.gen],
                         !.order = Without(st.order, s),
                         !.er[e] = members,
                         !.fl = Append(st.fl, [Task("disconnect", s, e) EXCEPT
                                   !.sid = conn.sessionId, !.out = out1])]

SetRegStateB(st) ==
  /\ sockState' = st.ss
  /\ rooms' = st.rm
  /\ activeConnections' = st.ac
  /\ eventRooms' = st.er
  /\ connOrder' = st.order
  /\ inflight' = st.fl
  /\ done' = st.dn

DisconnectB(s) ==
  /\ impl = "B"
  /\ sockState[s] \in {"open", "closing"}
  /\ SetRegStateB(DisconnectStateB(RegStateB, s))
  /\ UNCHANGED <<timeVars, ops, regA, logs>>

\* socket.to(roomName).emit('user-left') at the end of the handler
UserLeftB(t) ==
  [t EXCEPT !.res = "left",
            !.out = Append(t.out, Msg("user-left", t.ev, t.sock,
                                      SocketTo(rooms, t.ev, t.sock), 0))]

\* disconnect after findOne returns; the inner catch keeps the user-left
DisconnectFindB(i) ==
  /\ impl = "B"
  /\ i \in 1..Len(inflight)
  /\ inflight[i].kind = "disconnect" /\ inflight[i].pc = "find"
  /\ LET t == inflight[i]
         r == FindActive(t.sid, t.ev)
     IN \E ok \in BOOLEAN :
       IF ~ok \/ r = 0 THEN Finish(i, UserLeftB(t))
       ELSE /\ inflight' = [inflight EXCEPT ![i] =
                 [t EXCEPT !.pc = "save", !.row = r, !.snap = logs[r], !.at = clock]]
            /\ done' = done
  /\ UNCHANGED <<timeVars, ops, sockVars, regA, regB, logs>>

\* disconnect after cursorLog.save() returns
DisconnectSaveB(i) ==
  /\ impl = "B"
  /\ i \in 1..Len(inflight)
  /\ inflight[i].kind = "disconnect" /\ inflight[i].pc = "save"
  /\ LET t == inflight[i] IN
     \E ok \in BOOLEAN :
       /\ logs' = IF ok THEN [logs EXCEPT ![t.row] = endSessionB(@, t.snap, t.at)] ELSE logs
       /\ Finish(i, UserLeftB(t))
  /\ UNCHANGED <<timeVars, ops, sockVars, regA, regB>>

\* --------------------------------------------------------------- sweeper (B)
StaleB(ac, s, now) == HasEntryB(ac, s) /\ now - ac[s].connectedAt > staleThreshold

\* The for-of loop over activeConnections.entries().  socket.disconnect(true)
\* closes the transport: for the sockets in sync the close completes inside
\* the call and the disconnect handler runs before the loop's delete; for
\* the others the transport is left closing and the handler runs later.
RECURSIVE SweepFoldB(_, _, _, _)
SweepFoldB(st, todo, now, sync) ==
  IF todo = <<>> THEN st
  ELSE LET s == Head(todo)
           st1 == IF ~StaleB(st.ac, s, now) THEN st
                  ELSE LET st2 == IF st.ss[s] \notin {"open", "closing"} THEN st
                                  ELSE IF s \in sync THEN DisconnectStateB(st, s)
                                  ELSE [st EXCEPT !.ss[s] = "closing"]
                       IN [st2 EXCEPT !.ac[s] = [NoEntryB EXCEPT !.gen = st.ac[s].gen],
                                      !.order = Without(st2.order, s)]
       IN SweepFoldB(st1, Tail(todo), now, sync)

\* setInterval callback
SweepB ==
  /\ impl = "B" /\ Budget
  /\ ops' = ops - 1
  /\ \E sync \in SUBSET {s \in Sockets : StaleB(activeConnections, s, clock)
                                         /\ sockState[s] \in {"open", "closing"}} :
       SetRegStateB([SweepFoldB(RegStateB, connOrder, clock, sync) EXCEPT
                       !.dn = Result([Task("sweep", None, None) EXCEPT !.res = "swept",
                         !.gone = {s \in Sockets : StaleB(activeConnections, s, clock)}])])
  /\ UNCHANGED <<timeVars, regA, logs>>

\* ------------------------------------------------------ routes/cursor.js (B)
\* POST /start-session up to the return of CursorLog.findOne({eventId,
\* sessionId}); the event lookup before it reads nothing that changes
StartSessionB(sid, e) ==
  /\ impl = "B" /\ Budget
  /\ ops' = ops - 1
  /\ LET t == [Task("start-session", None, e) EXCEPT !.sid = sid, !.at = clock]
         r == FindPair(sid, e)
     IN \E ok \in BOOLEAN :
       IF ~ok THEN done' = Result([t EXCEPT !.res = "500"]) /\ inflight' = inflight
       ELSE /\ done' = done
            /\ inflight' = Append(inflight,
                 IF r = 0 THEN [t EXCEPT !.pc = "create"]
                 ELSE [t EXCEPT !.pc = "resume", !.row = r, !.snap = logs[r]])
  /\ UNCHANGED <<timeVars, sockVars, regA, regB, logs>>

\* the existing row made active again: existingSession.isActive = true,
\* sessionStart = new Date(), sessionEnd = null, totalDuration = null, then
\* save().  doc is the document the handler read, cur the stored row the
\* save lands on: save() sends a $set for the paths whose value changed on
\* the document.  sessionStart always changes; isActive changes only when
\* the document was closed; sessionEnd and totalDuration change unless the
\* document already held the null of an earlier resume (nulled)
ResumeRowB(cur, doc, at) ==
  [cur EXCEPT !.isActive = IF doc.isActive THEN @ ELSE TRUE,
              !.startTime = at,
              !.endTime = IF doc.endTime = NullTime /\ doc.nulled THEN @ ELSE NullTime,
              !.duration = IF doc.duration = NullTime /\ doc.nulled THEN @ ELSE NullTime,
              !.nulled = TRUE]

\* POST /start-session after save() returns
StartSessionSaveB(i) ==
  /\ impl = "B"
  /\ i \in 1..Len(inflight)
  /\ inflight[i].kind = "start-session"
  /\ LET t == inflight[i] IN
     \E ok \in BOOLEAN :
       IF ~ok THEN Finish(i, [t EXCEPT !.res = "500"]) /\ logs' = logs
       ELSE IF t.pc = "create"
       THEN /\ logs' = Append(logs, NewRowB(t.sid, t.ev, t.at))
            /\ Finish(i, [t EXCEPT !.res = "201", !.row = Len(logs) + 1])
       ELSE /\ logs' = [logs EXCEPT ![t.row] = ResumeRowB(@, t.snap, t.at)]
            /\ Finish(i, [t EXCEPT !.res = "200"])
  /\ UNCHANGED <<timeVars, ops, sockVars, regA, regB>>

\* A variant of POST /end-session that answers 200 when it finds no active
\* row, as an idempotent close would
EndSessionIdempotentB(sid, e) ==
  /\ impl = "B" /\ Budget
  /\ ops' = ops - 1
  /\ LET t == [Task("end-session", None, e) EXCEPT !.sid = sid, !.at = clock]
         r == FindActive(sid, e)
     IN \E ok \in BOOLEAN :
       IF ~ok THEN done' = Result([t EXCEPT !.res = "500"]) /\ inflight' = inflight
       ELSE IF r = 0
       THEN done' = Result([t EXCEPT !.res = "200"]) /\ inflight' = inflight
       ELSE /\ done' = done
            /\ inflight' = Append(inflight,
                 [t EXCEPT !.pc = "save", !.row = r, !.snap = logs[r]])
  /\ UNCHANGED <<timeVars, sockVars, regA, regB, logs>>

\* POST /end-session up to the return of CursorLog.findOne({eventId,
\* sessionId, isActive: true}): 404 without an active row, else endSession()
\* on the document and await save()
EndSessionB(sid, e) ==
  /\ impl = "B" /\ Budget
  /\ ops' = ops - 1
  /\ LET t == [Task("end-session", None, e) EXCEPT !.sid = sid, !.at = clock]
         r == FindActive(sid, e)
     IN \E ok \in BOOLEAN :
       IF ~ok THEN done' = Result([t EXCEPT !.res = "500"]) /\ inflight' = inflight
       ELSE IF r = 0
       THEN done' = Result([t EXCEPT !.res = "404"]) /\ inflight' = inflight
       ELSE /\ done' = done
            /\ inflight' = Append(inflight,
                 [t EXCEPT !.pc = "save", !.row = r, !.snap = logs[r]])
  /\ UNCHANGED <<timeVars, sockVars, regA, regB, logs>>

\* POST /end-session after save() returns: the reply carries
\* cursorLog.totalDuration of the document
EndSessionSaveB(i) ==
  /\ impl = "B"
  /\ i \in 1..Len(inflight)
  /\ inflight[i].kind = "end-session"
  /\ LET t == inflight[i] IN
     \E ok \in BOOLEAN :
       IF ~ok THEN Finish(i, [t EXCEPT !.res = "500"]) /\ logs' = logs
       ELSE /\ logs' = [logs EXCEPT ![t.row] = endSessionB(@, t.snap, t.at)]
            /\ Finish(i, [t EXCEPT !.res = "200",
                 !.val = sessionDuration(t.snap.startTime, t.at, t.snap.duration)])
  /\ UNCHANGED <<timeVars, ops, sockVars, regA, regB>>

\* ------------------------- POST /movement, /interaction, /page-view (B)
RestTrackKinds == {"movement", "interaction", "rest-page-view"}

\* A variant of the lookup that takes the pair's row whether active or not
RestTrackAnyRowB(kind, sid, e, arg) ==
  /\ impl = "B" /\ Budget
  /\ ops' = ops - 1
  /\ LET t == [Task(kind, None, e) EXCEPT !.sid = sid, !.arg = arg, !.at = clock]
         r == FindPair(sid, e)
     IN \E ok \in BOOLEAN :
       IF ~ok THEN done' = Result([t EXCEPT !.res = "500"]) /\ inflight' = inflight
       ELSE IF r = 0
       THEN done' = Result([t EXCEPT !.res = "404"]) /\ inflight' = inflight
       ELSE /\ done' = done
            /\ inflight' = Append(inflight,
                 [t EXCEPT !.pc = "save", !.row = r, !.snap = logs[r]])
  /\ UNCHANGED <<timeVars, sockVars, regA, regB, logs>>

\* a tracking request up to the return of CursorLog.findOne({eventId,
\* sessionId, isActive: true}): 404 without an active row
RestTrackB(kind, sid, e, arg) ==
  /\ impl = "B" /\ Budget
  /\ ops' = ops - 1
  /\ LET t == [Task(kind, None, e) EXCEPT !.sid = sid, !.arg = arg, !.at = clock]
         r == FindActive(sid, e)
     IN \E ok \in BOOLEAN :
       IF ~ok THEN done' = Result([t EXCEPT !.res = "500"]) /\ inflight' = inflight
       ELSE IF r = 0
       THEN done' = Result([t EXCEPT !.res = "404"]) /\ inflight' = inflight
       ELSE /\ done' = done
            /\ inflight' = Append(inflight,
                 [t EXCEPT !.pc = "save", !.row = r, !.snap = logs[r]])
  /\ UNCHANGED <<timeVars, sockVars, regA, regB, logs>>

MovementB(sid, e) ==
  \E a \in Actions : RestTrackB("movement", sid, e, [NoArg EXCEPT !.action = a])

InteractionB(sid, e) ==
  RestTrackB("interaction", sid, e, [NoArg EXCEPT !.action = "button_click"])

PageViewRestB(sid, e) ==
  \E p \in Pages, d \in TimesSpent :
    RestTrackB("rest-page-view", sid, e, [NoArg EXCEPT !.page = p, !.timeSpent = d])

\* what the request's save() writes: the model method's push
RestApplyB(t, cur) ==
  CASE t.kind = "movement" -> addCursorMovementB(cur, t.snap, t.arg.action)
    [] t.kind = "interaction" -> addInteraction(cur)
    [] OTHER -> [cur EXCEPT !.pageViews = Append(@, [page |-> t.arg.page,
                                                     timeSpent |-> t.arg.timeSpent])]

\* a tracking request after cursorLog.save() returns
RestTrackSaveB(i) ==
  /\ impl = "B"
  /\ i \in 1..Len(inflight)
  /\ inflight[i].kind \in RestTrackKinds
  /\ LET t == inflight[i] IN
     \E ok \in BOOLEAN :
       IF ~ok THEN Finish(i, [t EXCEPT !.res = "500"]) /\ logs' = logs
       ELSE /\ logs' = [logs EXCEPT ![t.row] = RestApplyB(t, @)]
            /\ Finish(i, [t EXCEPT !.res = "200"])
  /\ UNCHANGED <<timeVars, ops, sockVars, regA, regB>>

\* The REST client of routes/cursor.js alone: one session of one event
\* started, tracked and ended over HTTP
NextRestB ==
  \/ Tick
  \/ \E sid \in SessionIds, e \in OneEvent :
       \/ StartSessionB(sid, e) \/ EndSessionB(sid, e)
       \/ MovementB(sid, e) \/ InteractionB(sid, e) \/ PageViewRestB(sid, e)
  \/ \E i \in Slots :
       \/ StartSessionSaveB(i) \/ EndSessionSaveB(i)
       \/ RestTrackSaveB(i)
InitRestB == Base /\ impl = "B" /\ ops = MaxOps
SpecRestB == InitRestB /\ [][NextRestB]_vars

\* --------------------------------------------- GET /export/:id (analytics.js)
\* The sessions, creation times and date bounds of the export requests; a
\* bound of NullTime is a query parameter that is not given
ExportSessionIds == {"k1", "k2"}
ExportTimes == {0, 600}
ExportFormats == {"csv", "json"}
MaxExportRows == 2

\* CursorLog.find({eventId, createdAt range only if both bounds are given})
ExportMatch(rows, e, startDate, endDate) ==
  {r \in 1..Len(rows) :
     /\ rows[r].eventId = e
     /\ (startDate # NullTime /\ endDate # NullTime)
          => (rows[r].createdAt >= startDate /\ rows[r].createdAt <= endDate)}

\* .sort({ createdAt: 1 }): the orders the sort can return the rows in, rows
\* of equal createdAt in any order
ExportFind(rows, e, startDate, endDate) ==
  LET M == ExportMatch(rows, e, startDate, endDate) IN
  {q \in [1..Cardinality(M) -> M] :
     /\ \A j \in DOMAIN q, k \in DOMAIN q : j # k => q[j] # q[k]
     /\ \A j \in DOMAIN q, k \in DOMAIN q :
          j < k => rows[q[j]].createdAt <= rows[q[k]].createdAt}

\* one line of csvData: sessionEnd || 'Active', totalDuration || 'Active'
CsvRow(log) ==
  [sessionId |-> log.sessionId,
   sessionStart |-> log.startTime,
   sessionEnd |-> IF log.endTime = NullTime THEN "Active" ELSE ToString(log.endTime),
   totalDuration |-> IF log.duration = NullTime \/ log.duration = 0
                     THEN "Active" ELSE ToString(log.duration),
   interactions |-> log.interactions,
   cursorMovements |-> Len(log.cursorData)]

\* A variant of the body whose csv form leaves out the sessions still open
ExportBodyCsvClosedOnly(format, rows, q) ==
  IF format = "json" THEN [k \in 1..Len(q) |-> rows[q[k]]]
  ELSE LET Closed(r) == rows[r].endTime # NullTime
           c == SelectSeq(q, Closed)
       IN [k \in 1..Len(c) |-> CsvRow(rows[c[k]])]

\* the body of the response: the documents (json) or one line each (csv)
ExportBody(format, rows, q) ==
  [k \in 1..Len(q) |-> IF format = "json" THEN rows[q[k]] ELSE CsvRow(rows[q[k]])]

\* the bodies the export of event e can answer with
ExportBodies(format, rows, e, startDate, endDate) ==
  {ExportBody(format, rows, q) : q \in ExportFind(rows, e, startDate, endDate)}

\* GET /export/:id
ExportB(e, format, startDate, endDate) ==
  /\ impl = "B"
  /\ \E ok \in BOOLEAN :
       IF ~ok
       THEN done' = [NoResult EXCEPT !.kind = "export", !.ev = e, !.res = "500",
                                        !.action = format]
       ELSE \E body \in ExportBodies(format, logs, e, startDate, endDate) :
              done' = [NoResult EXCEPT !.kind = "export", !.ev = e, !.res = "200",
                                       !.action = format, !.out = body]
  /\ UNCHANGED <<timeVars, ops, sockVars, regA, regB, logs, inflight>>

\* Backend B holding stored sessions, answering export requests: the rows
\* are of different (sessionId, eventId) pairs and lie in the order they
\* were created in
ExportRows ==
  {rows \in UNION {[1..n -> {NewRowB(sid, e, at) :
                      sid \in ExportSessionIds, e \in Events, at \in ExportTimes}] :
                    n \in 0..MaxExportRows} :
     \A j \in 1..Len(rows), k \in 1..Len(rows) :
       j < k => /\ rows[j].createdAt <= rows[k].createdAt
                /\ <<rows[j].sessionId, rows[j].eventId>>
                     # <<rows[k].sessionId, rows[k].eventId>>}
InitExport ==
  /\ impl = "B" /\ ops = 0
  /\ clock = 600 /\ ticks = 0
  /\ sockState = [s \in Sockets |-> "new"]
  /\ connOrder = <<>>
  /\ rooms = [s \in Sockets |-> {}]
  /\ sessionData = [s \in Sockets |-> NoEntryA]
  /\ activeSessions = {}
  /\ logs \in ExportRows
  /\ inflight = <<>>
  /\ done = NoResult
  /\ activeConnections = [s \in Sockets |-> NoEntryB]
  /\ eventRooms = [e \in Events |-> {}]
NextExport ==
  \E e \in Events, format \in ExportFormats,
     startDate \in ExportTimes \cup {NullTime}, endDate \in ExportTimes \cup {NullTime} :
    ExportB(e, format, startDate, endDate)
SpecExport == InitExport /\ [][NextExport]_vars

\* ------------------------------------------------------ aggregator queries
\* The sessions and date bounds of the analytics requests; a bound of
\* NullTime is a query parameter that is not given
AnalyticsTimes == {0, 600}
AnalyticsPages == {"p1", "p2"}
MaxAnalyticsRows == 2
msPerHour == 3600000
hoursPerDay == 24

\* $sum of f over the rows R
RECURSIVE SumRows(_, _)
SumRows(f, R) ==
  IF R = {} THEN 0
  ELSE LET r == CHOOSE r \in R : TRUE IN f[r] + SumRows(f, R \ {r})

\* $avg of f over the rows R that carry a number, exact as <<sum, count>>;
\* None (null) when no row does
AvgRows(f, R) ==
  LET N == {r \in R : f[r] # NullTime} IN
  IF N = {} THEN None ELSE <<SumRows(f, N), Cardinality(N)>>

\* A variant of the match that leaves out the event
AnalyticsMatchAnyEventA(rows, e, startDate, endDate) ==
  {r \in 1..Len(rows) :
     /\ startDate # NullTime => rows[r].createdAt >= startDate
     /\ endDate # NullTime => rows[r].createdAt <= endDate}

\* matchConditions of getSessionAnalytics: each date bound applies when given
AnalyticsMatchA(rows, e, startDate, endDate) ==
  {r \in 1..Len(rows) :
     /\ rows[r].eventId = e
     /\ startDate # NullTime => rows[r].createdAt >= startDate
     /\ endDate # NullTime => rows[r].createdAt <= endDate}

\* sessionStats[0] || {zeros}
OverviewA(rows, M) ==
  IF M = {}
  THEN [totalSessions |-> 0, totalClicks |-> 0, totalScrolls |-> 0,
        avgDuration |-> <<0, 1>>, totalPageViews |-> 0,
        avgClicksPerSession |-> <<0, 1>>, avgScrollsPerSession |-> <<0, 1>>]
  ELSE LET clicks == SumRows([r \in M |-> rows[r].totalClicks], M)
           scrolls == SumRows([r \in M |-> rows[r].totalScrolls], M)
       IN [totalSessions |-> Cardinality(M),
           totalClicks |-> clicks,
           totalScrolls |-> scrolls,
           avgDuration |-> AvgRows([r \in M |-> rows[r].duration], M),
           totalPageViews |-> SumRows([r \in M |-> Len(rows[r].pagesVisited)], M),
           avgClicksPerSession |-> <<clicks, Cardinality(M)>>,
           avgScrollsPerSession |-> <<scrolls, Cardinality(M)>>]

\* pageAnalytics?.[0] || null: the visits of the page in the matched rows
PageAnalyticsA(rows, M, page) ==
  LET V == {rk \in UNION {{<<r, k>> : k \in 1..Len(rows[r].pagesVisited)} : r \in M} :
              rows[rk[1]].pagesVisited[rk[2]].page = page}
      time == [rk \in V |-> rows[rk[1]].pagesVisited[rk[2]].timeSpent]
  IN IF page = None \/ V = {} THEN None
     ELSE [totalVisits |-> Cardinality(V),
           totalTimeSpent |-> SumRows(time, V),
           avgTimeSpent |-> <<SumRows(time, V), Cardinality(V)>>]

\* hourlyStats: one item per $hour of startTime, in ascending order of hour
HourOf(ms) == (ms \div msPerHour) % hoursPerDay
HourlyA(rows, M) ==
  LET hours == {HourOf(rows[r].startTime) : r \in M}
      item(h) == LET R == {r \in M : HourOf(rows[r].startTime) = h} IN
                 [hour |-> h, sessions |-> Cardinality(R),
                  avgDuration |-> AvgRows([r \in R |-> rows[r].duration], R)]
      below(h) == Cardinality({g \in hours : g < h})
  IN [k \in 1..Cardinality(hours) |-> item(CHOOSE h \in hours : below(h) = k - 1)]

\* deviceStats: the rows carry no device type, so they form one group
DeviceA(rows, M) ==
  IF M = {} THEN <<>>
  ELSE <<[type |-> None, count |-> Cardinality(M),
          avgDuration |-> AvgRows([r \in M |-> rows[r].duration], M)]>>

\* the analytics object of getSessionAnalytics
SessionAnalyticsA(rows, e, page, startDate, endDate) ==
  LET M == AnalyticsMatchA(rows, e, startDate, endDate) IN
  [overview |-> OverviewA(rows, M),
   pageAnalytics |-> PageAnalyticsA(rows, M, page),
   deviceDistribution |-> DeviceA(rows, M),
   hourlyDistribution |-> HourlyA(rows, M)]

\* GET session analytics of cursorRoutes.js: four aggregates, then the reply
GetSessionAnalyticsA(e, page, startDate, endDate) ==
  /\ impl = "A"
  /\ \E ok \in BOOLEAN :
       done' = IF ~ok
               THEN [NoResult EXCEPT !.kind = "analytics", !.ev = e, !.res = "500"]
               ELSE [NoResult EXCEPT !.kind = "analytics", !.ev = e, !.res = "200",
                       !.out = <<SessionAnalyticsA(logs, e, page, startDate, endDate)>>]
  /\ UNCHANGED <<timeVars, ops, sockVars, regA, regB, logs, inflight>>

\* the pipeline of getEventAnalytics: the date range applies when both
\* bounds are given
AnalyticsMatchB(rows, e, startDate, endDate) ==
  {r \in 1..Len(rows) :
     /\ rows[r].eventId = e
     /\ (startDate # NullTime /\ endDate # NullTime)
          => (rows[r].createdAt >= startDate /\ rows[r].createdAt <= endDate)}

\* cursorLogSchema.statics.getEventAnalytics: result[0] || {zeros}
getEventAnalytics(rows, e, startDate, endDate) ==
  LET M == AnalyticsMatchB(rows, e, startDate, endDate) IN
  IF M = {}
  THEN [totalSessions |-> 0, totalInteractions |-> 0,
        averageSessionDuration |-> <<0, 1>>, totalCursorMovements |-> 0]
  ELSE [totalSessions |-> Cardinality(M),
        totalInteractions |-> SumRows([r \in M |-> rows[r].interactions], M),
        averageSessionDuration |-> AvgRows([r \in M |-> rows[r].duration], M),
        totalCursorMovements |-> SumRows([r \in M |-> Len(rows[r].cursorData)], M)]

\* a request that awaits CursorLog.getEventAnalytics and replies with it
GetEventAnalyticsB(e, startDate, endDate) ==
  /\ impl = "B"
  /\ \E ok \in BOOLEAN :
       done' = IF ~ok
               THEN [NoResult EXCEPT !.kind = "analytics", !.ev = e, !.res = "500"]
               ELSE [NoResult EXCEPT !.kind = "analytics", !.ev = e, !.res = "200",
                       !.out = <<getEventAnalytics(logs, e, startDate, endDate)>>]
  /\ UNCHANGED <<timeVars, ops, sockVars, regA, regB, logs, inflight>>

\* Either backend holding up to MaxAnalyticsRows sessions of event e1,
\* answering aggregator queries for e1 and for e2, which has no session
AnalyticsRowsA ==
  {[NewRowA(sid, "e1", at) EXCEPT !.totalClicks = c,
                                  !.clicks = [k \in 1..c |-> [x |-> 5, y |-> 5, page |-> "p1"]],
                                  !.cursorData = [k \in 1..c |-> "click"],
                                  !.pagesVisited = pv] :
     sid \in Sockets, at \in AnalyticsTimes, c \in {0, 1},
     pv \in {<<>>, <<[page |-> "p1", timeSpent |-> 10]>>}}
AnalyticsRowsB ==
  {[NewRowB(sid, "e1", at) EXCEPT !.interactions = n] :
     sid \in ExportSessionIds, at \in AnalyticsTimes, n \in {0, 1}}
AnalyticsStores(R) ==
  {rows \in UNION {[1..n -> R] : n \in 0..MaxAnalyticsRows} :
     \A j \in 1..Len(rows), k \in 1..Len(rows) :
       j < k => /\ rows[j].createdAt <= rows[k].createdAt
                /\ rows[j].sessionId # rows[k].sessionId}
InitAnalytics ==
  /\ impl \in {"A", "B"} /\ ops = 0
  /\ clock = 600 /\ ticks = 0
  /\ sockState = [s \in Sockets |-> "new"]
  /\ connOrder = <<>>
  /\ rooms = [s \in Sockets |-> {}]
  /\ sessionData = [s \in Sockets |-> NoEntryA]
  /\ activeSessions = {}
  /\ logs \in AnalyticsStores(IF impl = "A" THEN AnalyticsRowsA ELSE AnalyticsRowsB)
  /\ inflight = <<>>
  /\ done = NoResult
  /\ activeConnections = [s \in Sockets |-> NoEntryB]
  /\ eventRooms = [e \in Events |-> {}]
NextAnalytics ==
  \E e \in Events, startDate \in AnalyticsTimes \cup {NullTime},
     endDate \in AnalyticsTimes \cup {NullTime} :
    \/ \E page \in AnalyticsPages \cup {None} :
         \/ GetSessionAnalyticsA(e, page, startDate, endDate)
         \/ \E resolution \in Resolutions : GetHeatmapA(e, page, resolution)
    \/ GetEventAnalyticsB(e, startDate, endDate)
SpecAnalytics == InitAnalytics /\ [][NextAnalytics]_vars

\* backend B with its clients on the sockets SS, the events EE
NextOnB(SS, EE) ==
  \/ Tick
  \/ \E s \in SS : ConnectB(s) \/ DisconnectB(s)
  \/ \E s \in SS, e \in EE, sid \in SessionIds :
       \/ JoinEventB(s, e, sid)
       \/ CursorMoveB(s, e, sid) \/ UserInteractionB(s, e, sid) \/ PageViewB(s, e, sid)
  \/ SweepB
  \/ \E sid \in SessionIds, e \in EE : StartSessionB(sid, e) \/ EndSessionB(sid, e)
  \/ \E i \in Slots :
       \/ JoinLookupB(i)
       \/ InteractFindB(i) \/ InteractSaveB(i)
       \/ DisconnectFindB(i) \/ DisconnectSaveB(i)
       \/ StartSessionSaveB(i) \/ EndSessionSaveB(i)

NextB == NextOnB(Sockets, Events)
InitB == Base /\ impl = "B" /\ ops = MaxOps
SpecB == InitB /\ [][NextB]_vars

\* Backend B followed for longer, with one client on one event
NextTrackB == NextOnB(OneSocket, OneEvent)
InitTrackB == Base /\ impl = "B" /\ ops = MaxOpsTrack
SpecTrackB == InitTrackB /\ [][NextTrackB]_vars

\* The same client and event with the shorter budget of SpecB
InitCloseB == Base /\ impl = "B" /\ ops = MaxOps
SpecCloseB == InitCloseB /\ [][NextTrackB]_vars

\* The cursor-move path of both backends: clients connect, join the event
\* and send cursor samples; sessions are started over REST (B)
NextRelay ==
  \/ Tick
  \/ \E s \in Sockets : ConnectA(s) \/ ConnectB(s)
  \/ \E s \in Sockets, e \in OneEvent :
       \/ JoinEventA(s, e) \/ CursorMoveA(s, e)
       \/ \E sid \in SessionIds : JoinEventB(s, e, sid) \/ CursorMoveB(s, e, sid)
  \/ \E sid \in SessionIds, e \in OneEvent : StartSessionB(sid, e)
  \/ \E i \in Slots :
       \/ JoinFindA(i) \/ JoinCreateA(i)
       \/ InteractFindA(i) \/ InteractSaveA(i)
       \/ JoinLookupB(i)
       \/ InteractFindB(i) \/ InteractSaveB(i)
       \/ StartSessionSaveB(i)
InitRelay == Base /\ impl \in {"A", "B"} /\ ops = MaxOpsTrack
SpecRelay == InitRelay /\ [][NextRelay]_vars

\* The cursor-move path with clients that also send samples without x
NextMissing ==
  \/ NextRelay
  \/ \E s \in Sockets, e \in OneEvent :
       \/ CursorMoveMissingA(s, e)
       \/ \E sid \in SessionIds : CursorMoveMissingB(s, e, sid)
InitMissing == Base /\ impl \in {"A", "B"} /\ ops = MaxOps
SpecMissing == InitMissing /\ [][NextMissing]_vars

\* The cursor-move path from a long session: client s1 is in the room of
\* e1 and its active row already holds cursorCap samples; s2 has yet to
\* connect
FullBuffer == [k \in 1..cursorCap |-> "move"]
InitFull ==
  /\ impl \in {"A", "B"}
  /\ ops = MaxOpsA
  /\ clock = 0 /\ ticks = 0
  /\ sockState = [s \in Sockets |-> IF s = "s1" THEN "open" ELSE "new"]
  /\ connOrder = <<"s1">>
  /\ rooms = [s \in Sockets |-> IF s = "s1" THEN {"e1"} ELSE {}]
  /\ sessionData = [s \in Sockets |->
       IF impl = "A" /\ s = "s1" THEN [currentEvent |-> "e1", lastActivity |-> 0]
       ELSE NoEntryA]
  /\ activeSessions = IF impl = "A" THEN {"s1"} ELSE {}
  /\ activeConnections = [s \in Sockets |->
       IF impl = "B" /\ s = "s1"
       THEN [eventId |-> "e1", sessionId |-> "k1", connectedAt |-> 0,
             lastCursorLog |-> NullTime, gen |-> 1]
       ELSE NoEntryB]
  /\ eventRooms = [e \in Events |-> IF impl = "B" /\ e = "e1" THEN {"s1"} ELSE {}]
  /\ logs = IF impl = "A"
            THEN <<[NewRowA("s1", "e1", 0) EXCEPT !.cursorData = FullBuffer]>>
            ELSE <<[NewRowB("k1", "e1", 0) EXCEPT !.cursorData = FullBuffer]>>
  /\ inflight = <<>>
  /\ done = NoResult
SpecFull == InitFull /\ [][NextRelay]_vars

\* ------------------------------------------- the client's end-session message
\* socket.emit('end-session', {eventId, sessionId}) of SocketProvider.leaveEvent,
\* sent by a client that has joined the event.  Neither backend registers a
\* listener for 'end-session': the message is received and nothing runs.
EndSessionMessageB(s, e, sid) ==
  /\ impl = "B" /\ Budget
  /\ sockState[s] = "open"
  /\ HasEntryB(activeConnections, s)
  /\ activeConnections[s].eventId = e /\ activeConnections[s].sessionId = sid
  /\ ops' = ops - 1
  /\ done' = Result([Task("end-session-message", s, e) EXCEPT
                       !.sid = sid, !.res = "unhandled"])
  /\ UNCHANGED <<timeVars, sockVars, regA, regB, logs, inflight>>

EndSessionMessageA(s, e) ==
  /\ impl = "A" /\ Budget
  /\ sockState[s] = "open"
  /\ sessionData[s].currentEvent = e
  /\ ops' = ops - 1
  /\ done' = Result([Task("end-session-message", s, e) EXCEPT
                       !.sid = s, !.res = "unhandled"])
  /\ UNCHANGED <<timeVars, sockVars, regA, regB, logs, inflight>>

\* Both backends with one client on one event that also leaves the event
\* the way the client does
NextLeave ==
  \/ NextOnA(OneSocket, OneEvent)
  \/ NextOnB(OneSocket, OneEvent)
  \/ \E s \in OneSocket, e \in OneEvent :
       \/ EndSessionMessageA(s, e)
       \/ \E sid \in SessionIds : EndSessionMessageB(s, e, sid)
InitLeave == Base /\ impl \in {"A", "B"} /\ ops = MaxOps
SpecLeave == InitLeave /\ [][NextLeave]_vars

\* Both backends with their clients on one event
NextOneEvent == NextOnA(Sockets, OneEvent) \/ NextOnB(Sockets, OneEvent)
SpecOneEvent == Init /\ [][NextOneEvent]_vars

Next == NextA \/ NextB
Spec == Init /\ [][Next]_vars

\* ======================================================================
\* Claims
\* ======================================================================

\* The connections that are connected and whose current room is e (B)
MembersB(e) ==
  {s \in Sockets : /\ sockState[s] = "open"
                   /\ HasEntryB(activeConnections, s)
                   /\ activeConnections[s].eventId = e}

\* C1: after any join-event, disconnect and sweeper steps, the size recorded
\* for a room in eventRooms is the number of connections that joined it and
\* have not since left it or disconnected; a connection that moved to
\* another room or is gone is not counted.
C1_RoomSizeIsMembers ==
  impl = "B" =>
    \A e \in Events :
      /\ eventRooms[e] = MembersB(e)
      /\ Cardinality(eventRooms[e]) = Cardinality(MembersB(e))

\* C2: a connection is a member of at most one event room at any time, and
\* a join-event for room B handled while the connection is in room A # B
\* takes it out of A and sends user-left to A's members before user-joined
\* goes to B's members.
C2_OneRoomLeaveBeforeJoin ==
  /\ \A s \in Sockets :
       /\ Cardinality(rooms[s]) <= 1
       /\ Cardinality({e \in Events : s \in eventRooms[e]}) <= 1
  /\ (done.kind = "join" /\ done.res = "joined"
        /\ done.prev # None /\ done.prev # done.ev)
       => /\ HasMsg(done.out, "user-left", done.prev)
          /\ HasMsg(done.out, "user-joined", done.ev)
          /\ MsgIndex(done.out, "user-left", done.prev)
               < MsgIndex(done.out, "user-joined", done.ev)

\* C3: the store never holds two active SessionLogs for the same
\* (sessionId, eventId), also when starts for an unknown pair race over the
\* socket join and the REST create-or-update.
C3_OneActiveLogPerPair ==
  \A i \in 1..Len(logs), j \in 1..Len(logs) :
    (/\ logs[i].isActive /\ logs[j].isActive
     /\ logs[i].sessionId = logs[j].sessionId
     /\ logs[i].eventId = logs[j].eventId) => i = j

ClosedWithFloor(sid, e) ==
  \A i \in PairRows(sid, e) :
    /\ ~logs[i].isActive
    /\ logs[i].endTime # NullTime
    /\ logs[i].duration = FloorSeconds(logs[i].endTime - logs[i].startTime)

\* C5: once the disconnect handler of a connection that was in a room has
\* finished, the connection's registry entry is removed, it is no longer
\* counted in its room, the room's remaining members have been sent
\* user-left, and the SessionLog of its (sessionId, eventId) is inactive
\* with an end time and duration = floor((endTime - startTime) / 1 s).
C5_DisconnectCleansUp ==
  /\ (impl = "A" /\ done.kind = "disconnect" /\ done.res = "removed"
        /\ done.ev # None)
       => /\ done.sock \notin activeSessions
          /\ done.sock \notin RoomEntriesA(activeSessions, sessionData, done.ev)
          /\ HasMsg(done.out, "user-left", done.ev)
          /\ ClosedWithFloor(done.sid, done.ev)
  /\ (impl = "B" /\ done.kind = "disconnect" /\ done.res = "left")
       => /\ ~HasEntryB(activeConnections, done.sock)
          /\ done.sock \notin eventRooms[done.ev]
          /\ HasMsg(done.out, "user-left", done.ev)
          /\ ClosedWithFloor(done.sid, done.ev)

RecentlyActiveB(s) ==
  /\ HasEntryB(activeConnections, s)
  /\ sockState[s] = "open"
  /\ activeConnections[s].lastCursorLog # NullTime
  /\ clock - activeConnections[s].lastCursorLog <= staleThreshold

\* C7: a sweeper run removes a connection only if its last activity is
\* older than the inactivity timeout; a connection with an accepted
\* interaction event within the timeout window is never removed by it.
C7_SweepSparesActive ==
  [][(ops' = ops - 1 /\ done'.kind = "sweep")
      => \A s \in Sockets :
           RecentlyActiveB(s) => /\ HasEntryB(activeConnections', s)
                                 /\ sockState'[s] = "open"]_vars

\* C8: a cursor-move, cursor-click or user-interaction naming event E from
\* a connection that is not a member of room E reaches no member of any
\* room (and is persisted nowhere: such a handler ends without a write).
C8_NonMemberNotRelayed ==
  (done.kind \in InteractKindsA \cup InteractKindsB
     /\ done.res \in {"dropped", "nopersist"})
    => \A k \in 1..Len(done.out) : done.out[k].to = {}

\* the relay of handler t's cursor sample to its room, sender excluded
RelaySent(t) ==
  \E k \in 1..Len(t.out) :
    /\ t.out[k].type = (IF impl = "A" THEN RelayName("cursor-move") ELSE "cursor-move")
    /\ t.out[k].room = t.ev
    /\ t.out[k].from = t.sock
    /\ t.sock \notin t.out[k].to

\* C9: every cursor-move accepted from a connection in a room has its
\* relay to the room's other members emitted, whether its persistence is
\* still pending, was skipped by sampling or throttling, found no
\* SessionLog, failed in the store, or succeeded.
C9_RelayBeforePersistence ==
  /\ \A i \in 1..Len(inflight) :
       inflight[i].kind = "cursor-move" => RelaySent(inflight[i])
  /\ (done.kind = "cursor-move" /\ done.res # "dropped") => RelaySent(done)

\* C9, witness: a cursor sample whose write failed in the store, or was
\* throttled or sampled out, was relayed to a peer in the room
C9_RelayedThoughNotPersisted ==
  /\ done.kind = "cursor-move"
  /\ done.res \in {"error", "throttled", "skipped"}
  /\ \E k \in 1..Len(done.out) : done.out[k].to # {}

\* C10: every click, hover, scroll and page-visit event accepted from a
\* connection with an active SessionLog is persisted, never dropped by
\* sampling or throttling -- clicks sent as cursor-move messages with
\* action = click included.
C10_ClicksAlwaysPersisted ==
  (/\ \/ done.kind \in {"cursor-click", "cursor-hover", "page-scroll", "page-visit"}
      \/ done.kind = "cursor-move" /\ done.action = "click"
   /\ done.res \notin {"dropped", "nopersist"}
   /\ FindActive(done.sid, done.ev) # 0)
    => done.res \in {"saved", "error"}

\* C11: no SessionLog is ever created for an event that does not exist:
\* join-event and the REST create-or-update check the event first, end with
\* a not-found outcome for an unknown event, and then write no row.
C11_NoLogForUnknownEvent ==
  /\ \A i \in 1..Len(logs) : logs[i].eventId \notin UnknownEvents
  /\ (done.kind \in {"join", "session"} /\ done.ev \in UnknownEvents
        /\ done.res \notin {"500", "error"})
       => done.res \in {"notfound", "404"}

\* the connection has no entry in its backend's registry
NoEntry(s) ==
  IF impl = "A" THEN s \notin activeSessions ELSE ~HasEntryB(activeConnections, s)

\* C12: the disconnect of a connection that has no registry entry (never
\* joined, or already removed by the sweeper) changes no registry, room
\* count or SessionLog, starts no further work, raises no error and emits
\* no notification to any client.
C12_DisconnectWithoutEntryIsNoOp ==
  [][\A s \in Sockets :
       (sockState[s] # "closed" /\ sockState'[s] = "closed" /\ NoEntry(s))
         => /\ UNCHANGED <<regA, regB, connOrder, logs, inflight>>
            /\ done'.kind = "disconnect" /\ done'.sock = s
            /\ done'.res # "error"
            /\ done'.out = <<>>]_vars

\* C12, witness: a connection that is in a room but whose registry entry is
\* gone has disconnected, and no notification was emitted
C12_GoneWithoutEntry ==
  /\ done.kind = "disconnect" /\ done.out = <<>>
  /\ sockState[done.sock] = "closed"
  /\ NoEntry(done.sock)
  /\ \E e \in Events :
       IF impl = "A" THEN sessionData[done.sock].currentEvent = e
       ELSE done.sock \in eventRooms[e]

\* the number of click samples in a cursor-sample buffer
ClickSamples(cd) == Cardinality({k \in 1..Len(cd) : cd[k] = "click"})

\* the handler in slot i has just ended with its write stored
SavedStep(i) ==
  /\ i \in 1..Len(inflight)
  /\ inflight' = RemoveAt(inflight, i)
  /\ done' = Result([inflight[i] EXCEPT !.res = "saved"])

\* C13: with the interaction events of a SessionLog handled one after
\* another, totalClicks is the number of clicks stored, the heatmap click
\* list has one entry per stored click and cursorData holds every one of
\* them: a stored click adds one to each, and no other event -- a move
\* sample in particular -- changes totalClicks or the heatmap click list.
C13_ClicksCounted ==
  /\ [](\A r \in 1..Len(logs) :
          /\ logs[r].totalClicks = Len(logs[r].clicks)
          /\ Len(logs[r].clicks) = ClickSamples(logs[r].cursorData))
  /\ [][\A i \in Slots :
          (SavedStep(i) /\ inflight[i].kind = "cursor-click")
            => LET r == inflight[i].row IN
               /\ logs'[r].totalClicks = logs[r].totalClicks + 1
               /\ logs'[r].clicks = Append(logs[r].clicks,
                                            [x |-> inflight[i].arg.x,
                                             y |-> inflight[i].arg.y,
                                             page |-> inflight[i].arg.page])
               /\ logs'[r].cursorData = Append(logs[r].cursorData, "click")]_vars
  /\ [][\A r \in 1..Len(logs) :
          (\/ logs'[r].totalClicks # logs[r].totalClicks
           \/ logs'[r].clicks # logs[r].clicks)
            => \E i \in Slots : /\ SavedStep(i)
                                 /\ inflight[i].kind = "cursor-click"
                                 /\ inflight[i].row = r]_vars

\* C13, witness: a row holds two stored clicks and a stored move sample
C13_TwoClicksAndAMove ==
  \E r \in 1..Len(logs) :
    /\ logs[r].isActive
    /\ logs[r].totalClicks = 2
    /\ Len(logs[r].cursorData) = 3

\* C14: a SessionLog holds at most one scrollDepth entry per page, an
\* entry's maxDepth never decreases, and after a stored scroll event the
\* page's entry is at least the depth recorded (a smaller depth leaves it
\* unchanged).
C14_ScrollDepthIsMax ==
  /\ [](\A r \in 1..Len(logs) :
          \A j \in 1..Len(logs[r].scrollDepth), k \in 1..Len(logs[r].scrollDepth) :
            logs[r].scrollDepth[j].page = logs[r].scrollDepth[k].page => j = k)
  /\ [][\A r \in 1..Len(logs) : \A k \in 1..Len(logs[r].scrollDepth) :
          logs'[r].scrollDepth[k].maxDepth >= logs[r].scrollDepth[k].maxDepth]_vars
  /\ [][\A i \in Slots :
          (SavedStep(i) /\ inflight[i].kind = "page-scroll")
            => \E k \in 1..Len(logs'[inflight[i].row].scrollDepth) :
                 /\ logs'[inflight[i].row].scrollDepth[k].page = inflight[i].arg.page
                 /\ logs'[inflight[i].row].scrollDepth[k].maxDepth >= inflight[i].arg.depth]_vars

\* the entries of a page list name pairwise different pages
OnePerPage(seq) ==
  \A j \in 1..Len(seq), k \in 1..Len(seq) : seq[j].page = seq[k].page => j = k

\* the time recorded for page p in a page list
TimeOn(seq, p) ==
  IF FirstPage(seq, p) = 0 THEN 0 ELSE seq[FirstPage(seq, p)].timeSpent

\* C15: page visits accumulate per page: a SessionLog holds exactly one
\* page entry per distinct page visited, and a stored visit adds its
\* timeSpent to that entry, so the entry holds the sum over the page's
\* visits.
C15_PageVisitsAccumulate ==
  /\ [](\A r \in 1..Len(logs) :
          OnePerPage(logs[r].pagesVisited) /\ OnePerPage(logs[r].pageViews))
  /\ [][\A i \in Slots :
          (SavedStep(i) /\ inflight[i].kind \in {"page-visit", "page-view"})
            => LET r == inflight[i].row
                   p == inflight[i].arg.page
               IN TimeOn(logs'[r].pagesVisited \o logs'[r].pageViews, p)
                    = TimeOn(logs[r].pagesVisited \o logs[r].pageViews, p)
                        + inflight[i].arg.timeSpent]_vars

\* the clicks a heatmap query for event e and page filter p is to count
HeatCounted(e, p) ==
  {rk \in UNION {{<<r, k>> : k \in 1..Len(logs[r].clicks)} : r \in 1..Len(logs)} :
     /\ logs[rk[1]].eventId = e
     /\ p # None => logs[rk[1]].clicks[rk[2]].page = p}

\* the clicks of S in the resolution-r bucket and on the page of click c
HeatBucket(S, c, r) ==
  {rk \in S : LET d == logs[rk[1]].clicks[rk[2]] IN
               /\ d.x \div r = c.x \div r
               /\ d.y \div r = c.y \div r
               /\ d.page = c.page}

\* item it is the bucket of click c: its grid origin, its page, the count
\* and the mean x and y of the bucket's clicks
HeatItemFor(it, S, c, r) ==
  LET B == HeatBucket(S, c, r)
      xs == [rk \in S |-> logs[rk[1]].clicks[rk[2]].x]
      ys == [rk \in S |-> logs[rk[1]].clicks[rk[2]].y]
  IN /\ it.gridX = (c.x \div r) * r
     /\ it.gridY = (c.y \div r) * r
     /\ it.page = c.page
     /\ it.value = Cardinality(B)
     /\ it.x[1] * Cardinality(B) = Sum(xs, B) * it.x[2]
     /\ it.y[1] * Cardinality(B) = Sum(ys, B) * it.y[2]

\* C16: a heatmap query with resolution r puts every recorded click (x, y)
\* of the event (of the requested page only, when a page is given) in the
\* bucket (floor(x/r), floor(y/r)), answers one item per bucket with the
\* number of its clicks and their mean x and y, and orders the items by
\* count, largest first.
C16_HeatmapBucketsByResolution ==
  [][\A e \in Events, p \in HeatPages \cup {None}, r \in Resolutions :
       (GetHeatmapA(e, p, r) /\ done'.res = "200")
         => LET S == HeatCounted(e, p)
                out == done'.out
            IN /\ \A rk \in S :
                    Cardinality({k \in 1..Len(out) :
                       HeatItemFor(out[k], S, logs[rk[1]].clicks[rk[2]], r)}) = 1
               /\ \A k \in 1..Len(out) :
                    \E rk \in S : HeatItemFor(out[k], S, logs[rk[1]].clicks[rk[2]], r)
               /\ \A j \in 1..Len(out), k \in 1..Len(out) :
                    j < k => out[j].value >= out[k].value]_vars

\* the messages emitted by the handler that returned last and by the
\* handlers in flight
Emitted(dn, fl) ==
  {dn.out[k] : k \in 1..Len(dn.out)}
    \cup UNION {{fl[i].out[k] : k \in 1..Len(fl[i].out)} : i \in 1..Len(fl)}

\* C17: every change of a room's membership (a join, a switch away, a
\* disconnect, a removal by the sweeper) comes with an active-users-update
\* sent to all the members the room has after the change, the joiner
\* included, whose count is the number of those members.
C17_UpdateOnMembershipChange ==
  [][\A e \in Events :
       LET after == InRoomS(sockState', rooms', e) IN
       (impl = "B" /\ after # InRoom(rooms, e) /\ after # {})
         => \E m \in Emitted(done', inflight') :
              /\ m.type = "active-users-update"
              /\ m.room = e
              /\ m.to = after
              /\ m.val = Cardinality(after)]_vars

\* C18: a join-event for the room the connection is already in changes
\* nothing: the connection stays a member, its pair keeps one active
\* SessionLog, and no departure notice reaches the other members.
C18_RejoinIsIdempotent ==
  (done.kind = "join" /\ done.res = "joined" /\ done.prev = done.ev)
    => /\ sockState[done.sock] = "open" => done.sock \in InRoom(rooms, done.ev)
       /\ Cardinality(ActiveRows(done.sid, done.ev)) <= 1
       /\ \A k \in 1..Len(done.out) :
            ~(/\ done.out[k].type = "user-left"
              /\ done.out[k].room = done.ev
              /\ done.out[k].to # {})

\* C19: a SessionLog that is active has neither a duration nor an endTime
\* (both unset), and a SessionLog that is closed has both; a row that was
\* resumed is active and so has both cleared.
C19_DurationOnlyWhenClosed ==
  \A r \in 1..Len(logs) :
    IF logs[r].isActive
    THEN logs[r].duration = NullTime /\ logs[r].endTime = NullTime
    ELSE logs[r].duration # NullTime /\ logs[r].endTime # NullTime

\* C20: the cursor-sample buffer of a SessionLog never holds more than
\* cursorCap entries, whatever path stores a sample.
C20_BufferNeverExceedsCap ==
  \A r \in 1..Len(logs) : Len(logs[r].cursorData) <= cursorCap

\* C21: a cursor sample that lacks a required field (here x) is not
\* persisted, is not relayed to anyone, and its sender receives an error
\* signal for it.
C21_MalformedRejectedWithError ==
  (done.kind = "cursor-move" /\ done.x = Missing)
    => /\ done.res # "saved"
       /\ \A k \in 1..Len(done.out) :
            done.out[k].type \notin {"cursor-move", "cursor-update"}
       /\ \E k \in 1..Len(done.out) :
            done.out[k].type = "error" /\ done.out[k].to = {done.sock}

\* the active-sessions request held in inflight[i] answers 200 in this step
ListedStep(i) ==
  /\ i \in 1..Len(inflight)
  /\ inflight[i].kind = "active-sessions"
  /\ inflight' = RemoveAt(inflight, i)
  /\ done'.kind = "active-sessions" /\ done'.res = "200"

\* the sessionIds of the stored rows of event e that are active and were
\* touched in the window before time now
StoredActiveIds(e, now) ==
  {logs[r].sessionId : r \in {q \in 1..Len(logs) :
      /\ logs[q].eventId = e /\ logs[q].isActive
      /\ logs[q].lastActivity >= now - activeWindow}}

\* C22: the active-sessions listing of an event holds each sessionId at
\* most once and is the union of the live registry entries whose current
\* room is the event (read when the request arrives) and of the stored
\* SessionLog rows of the event that are active with lastActivity in the
\* last 5 minutes; a sessionId found in both is listed as the registry's.
C22_ListingIsDedupedUnion ==
  /\ [][\A e \in Events :
          GetActiveSessionsA(e)
            => LET t == inflight'[Len(inflight')] IN
               {t.out[k].sessionId : k \in 1..Len(t.out)}
                 = RoomEntriesA(activeSessions, sessionData, e)]_vars
  /\ [][\A i \in Slots :
          ListedStep(i)
            => LET mem == {inflight[i].out[k].sessionId : k \in 1..Len(inflight[i].out)}
                   db == StoredActiveIds(inflight[i].ev, inflight[i].now)
                   out == done'.out
               IN /\ \A j \in 1..Len(out), k \in 1..Len(out) :
                       out[j].sessionId = out[k].sessionId => j = k
                  /\ {out[k].sessionId : k \in 1..Len(out)} = mem \cup db
                  /\ \A k \in 1..Len(out) :
                       out[k].source = IF out[k].sessionId \in mem
                                       THEN "memory" ELSE "database"]_vars

\* C22, witness: a listing holds a registry entry whose session also has a
\* stored active row, and a session known from the store only
C22_ListedFromBothSources ==
  /\ done.kind = "active-sessions" /\ done.res = "200"
  /\ \E k \in 1..Len(done.out) :
       /\ done.out[k].source = "memory"
       /\ done.out[k].sessionId \in StoredActiveIds(done.ev, clock)
  /\ \E k \in 1..Len(done.out) : done.out[k].source = "database"

\* C23: once the server has received a client's end-session message for
\* (eventId, sessionId), the pair has no active SessionLog: the message
\* closes the row while the connection stays open.
C23_EndSessionMessageCloses ==
  (done.kind = "end-session-message" /\ sockState[done.sock] = "open")
    => ActiveRows(done.sid, done.ev) = {}

\* the sessions of an export body, in its order
ExportedIds(body) == [k \in 1..Len(body) |-> body[k].sessionId]

OtherFormat(format) == IF format = "csv" THEN "json" ELSE "csv"

\* the creation time of the stored session sid of event e
CreatedAtOf(e, sid) ==
  LET r == CHOOSE r \in 1..Len(logs) : logs[r].eventId = e /\ logs[r].sessionId = sid
  IN logs[r].createdAt

\* C24 as stated: for the same event and date filter (one or both bounds
\* absent included) the csv export and the json export list exactly the
\* same sessions, one per SessionLog, in the same order.
C24_ExportsSameOrder ==
  [][\A e \in Events, format \in ExportFormats,
        sd \in ExportTimes \cup {NullTime}, ed \in ExportTimes \cup {NullTime} :
       (ExportB(e, format, sd, ed) /\ done'.res = "200")
         => \A other \in ExportBodies(OtherFormat(format), logs, e, sd, ed) :
              ExportedIds(done'.out) = ExportedIds(other)]_vars

\* C24, amended: for the same event and date filter the csv export and the
\* json export list the same sessions, one row or object per SessionLog,
\* both in ascending order of createdAt; they can differ only in the order
\* of sessions that have the same createdAt.
C24_ExportsSameSessions ==
  [][\A e \in Events, format \in ExportFormats,
        sd \in ExportTimes \cup {NullTime}, ed \in ExportTimes \cup {NullTime} :
       (ExportB(e, format, sd, ed) /\ done'.res = "200")
         => \A other \in ExportBodies(OtherFormat(format), logs, e, sd, ed) :
              LET a == ExportedIds(done'.out)
                  b == ExportedIds(other)
              IN /\ Len(a) = Len(b)
                 /\ Len(a) = Cardinality(ExportMatch(logs, e, sd, ed))
                 /\ {a[k] : k \in 1..Len(a)} = {b[k] : k \in 1..Len(b)}
                 /\ Cardinality({a[k] : k \in 1..Len(a)}) = Len(a)
                 /\ \A k \in 1..Len(a) : CreatedAtOf(e, a[k]) = CreatedAtOf(e, b[k])
                 /\ \A j \in 1..Len(a), k \in 1..Len(a) :
                      j < k => CreatedAtOf(e, a[j]) <= CreatedAtOf(e, a[k])]_vars

\* C24, witness: a csv export has answered with two sessions that were
\* created at the same time
C24_ExportedTwoOfOneTime ==
  /\ done.kind = "export" /\ done.res = "200" /\ done.action = "csv"
  /\ Len(done.out) = 2
  /\ CreatedAtOf(done.ev, done.out[1].sessionId)
       = CreatedAtOf(done.ev, done.out[2].sessionId)

\* C25: every aggregator query (session analytics with its device and hourly
\* distributions, heatmap, event analytics) leaves the stored rows as they
\* were, and an answered query for an event that has no row carries totals
\* of zero, averages of zero, empty lists and no page section
ZeroAvg == <<0, 1>>
ZeroResponse(dn) ==
  IF dn.kind = "heatmap" THEN dn.out = <<>>
  ELSE /\ Len(dn.out) = 1
       /\ IF impl = "A"
          THEN /\ dn.out[1].overview.totalSessions = 0
               /\ dn.out[1].overview.totalClicks = 0
               /\ dn.out[1].overview.totalScrolls = 0
               /\ dn.out[1].overview.totalPageViews = 0
               /\ dn.out[1].overview.avgDuration = ZeroAvg
               /\ dn.out[1].overview.avgClicksPerSession = ZeroAvg
               /\ dn.out[1].overview.avgScrollsPerSession = ZeroAvg
               /\ dn.out[1].pageAnalytics = None
               /\ dn.out[1].deviceDistribution = <<>>
               /\ dn.out[1].hourlyDistribution = <<>>
          ELSE /\ dn.out[1].totalSessions = 0
               /\ dn.out[1].totalInteractions = 0
               /\ dn.out[1].totalCursorMovements = 0
               /\ dn.out[1].averageSessionDuration = ZeroAvg
C25_AggregatorsReadOnlyZeroOnEmpty ==
  [][done'.kind \in {"analytics", "heatmap"} =>
       /\ logs' = logs
       /\ ((done'.res = "200" /\ \A r \in 1..Len(logs) : logs[r].eventId # done'.ev)
            => ZeroResponse(done'))]_vars
C25_AnsweredForEventWithoutRows ==
  /\ done.kind = "analytics" /\ done.res = "200" /\ done.ev = "e2"
  /\ Len(logs) > 0

\* C26: an interaction sent on a connection after its join-event is handled
\* as coming from a member of the joined room, so it is relayed and goes on
\* to be persisted, also while the join's event lookup is still pending
JoinPending(s, e) ==
  \E i \in 1..Len(inflight) :
    inflight[i].kind = "join" /\ inflight[i].sock = s /\ inflight[i].ev = e
C26_InteractionAfterJoinIsMembers ==
  [][\A s \in Sockets, e \in Events :
       (/\ JoinPending(s, e)
        /\ ops' < ops /\ done' # done
        /\ done'.kind \in InteractKindsB
        /\ done'.sock = s /\ done'.ev = e /\ done'.x # Missing)
       => done'.res # "nopersist"]_vars

\* C27: once a connection has disconnected and none of its handlers is
\* still in flight, no SessionLog of that connection's session is active;
\* stated for the moment the connection's join-event, the last of its
\* handlers, has finished without a store failure
C27_NoActiveLogAfterDisconnect ==
  impl = "A" =>
    \A s \in Sockets :
      (/\ sockState[s] = "closed"
       /\ \A i \in 1..Len(inflight) : inflight[i].sock # s
       /\ done.kind = "join" /\ done.sock = s /\ done.res = "joined")
        => \A r \in 1..Len(logs) : logs[r].sessionId = s => ~logs[r].isActive

\* C28: every connection that has a registry entry or is in a room's member
\* set is a connected socket
C28_RegistryHoldsConnectedOnly ==
  impl = "B" =>
    \A s \in Sockets :
      (HasEntryB(activeConnections, s) \/ \E e \in Events : s \in eventRooms[e])
        => sockState[s] = "open"

\* C29: click handlers of one session that interleave lose no update: once
\* none of them is in flight, totalClicks of the SessionLog equals the number
\* of its heatmap clicks entries
C29_NoClickLost ==
  impl = "A" =>
    \A r \in 1..Len(logs) :
      (\A i \in 1..Len(inflight) :
         ~(inflight[i].kind = "cursor-click" /\ inflight[i].sid = logs[r].sessionId))
        => logs[r].totalClicks = Len(logs[r].clicks)

\* C30: a SessionLog that is closed stays closed when an interaction handler
\* that read it while it was active saves afterwards: the step that ends the
\* handler leaves isActive false and endTime and duration as the close set
\* them
C30_LateInteractionKeepsClosed ==
  [][(done' # done /\ done'.kind \in InteractKindsB)
       => \A r \in 1..Len(logs) :
            ~logs[r].isActive
              => /\ ~logs'[r].isActive
                 /\ logs'[r].endTime = logs[r].endTime
                 /\ logs'[r].duration = logs[r].duration]_vars
\* the row was started over REST, joined and written by one interaction, so
\* the three requests spent leave the disconnect as what closed it
C30_SavedOntoClosedRow ==
  /\ impl = "B"
  /\ done.kind \in InteractKindsB /\ done.res = "saved"
  /\ sockState[done.sock] = "closed" /\ ops = MaxOpsTrack - 3
  /\ done.row \in 1..Len(logs)
  /\ ~logs[done.row].isActive /\ logs[done.row].endTime # NullTime
  /\ Len(logs[done.row].cursorData) + logs[done.row].interactions
       + Len(logs[done.row].pageViews) > 0

\* C31: the sweeper removes no registry entry and closes no SessionLog of a
\* connection that became active again after the sweeper judged it stale: an
\* open connection whose last activity lies within the inactivity timeout
\* keeps its entry and its active SessionLog through every step
C31_SweepSparesReactivated ==
  [][\A s \in Sockets :
       (/\ impl = "A"
        /\ s \in activeSessions /\ sockState[s] = "open" /\ sockState'[s] = "open"
        /\ clock - sessionData[s].lastActivity <= inactiveThreshold)
       => /\ s \in activeSessions'
          /\ \A r \in 1..Len(logs) :
               (logs[r].sessionId = s /\ logs[r].isActive) => logs'[r].isActive]_vars

\* C32: a failure while cleaning up one stale entry does not stop the sweep:
\* when a sweeper run ends, no entry that was stale at the time the run
\* read is left in the registry, other than the entry whose cleanup failed
SweepNow ==
  IF \E i \in 1..Len(inflight) : inflight[i].kind = "sweep"
  THEN {inflight[i].now : i \in {j \in 1..Len(inflight) : inflight[j].kind = "sweep"}}
  ELSE {clock}
C32_SweepFinishesDespiteFailure ==
  [][(impl = "A" /\ done' # done /\ done'.kind = "sweep")
       => \A s \in activeSessions', now \in SweepNow :
            (done'.res = "error" => s # done'.sock)
              => ~(now - sessionData[s].lastActivity > inactiveThreshold)]_vars

\* C33: a connection the sweeper has removed is treated as disconnected: it
\* is in no room, so no relay reaches it, and a message it sends before it
\* joins again is dropped, neither relayed nor handed on to persistence
\* the sweeper has removed the open connection s, which has been silent since
SweptA(s) ==
  /\ impl = "A" /\ sockState[s] = "open" /\ s \notin activeSessions
  /\ clock - sessionData[s].lastActivity > inactiveThreshold
C33_SweptIsDisconnected ==
  [][\A s \in Sockets :
       SweptA(s) =>
         /\ rooms[s] = {}
         /\ (ops' < ops /\ done' # done /\ done'.sock = s
                /\ done'.kind \in InteractKindsA) => done'.res = "dropped"
         /\ (ops' < ops /\ Len(inflight') > Len(inflight))
              => ~(/\ inflight'[Len(inflight')].sock = s
                   /\ inflight'[Len(inflight')].kind \in InteractKindsA)]_vars

\* C34: peers receive at most one user-left per user-joined of a session:
\* while a sweeper run that has announced the departure of a connection to a
\* peer is still at work, and the connection has not been active since, no
\* other handler announces that departure to the peer again
LeftMsg(out, s, u) ==
  \E k \in 1..Len(out) : out[k].type = "user-left" /\ out[k].from = s /\ u \in out[k].to
C34_DepartureAnnouncedOnce ==
  [][\A s \in Sockets, u \in Sockets, i \in 1..Len(inflight) :
       (/\ impl = "A" /\ u # s
        /\ inflight[i].kind = "sweep" /\ LeftMsg(inflight[i].out, s, u)
        /\ inflight[i].now - sessionData[s].lastActivity > inactiveThreshold
        /\ Len(inflight') > Len(inflight))
       => ~LeftMsg(inflight'[Len(inflight')].out, s, u)]_vars

\* C35: an exception raised while handling one message of a connection, a
\* store failure included, stays in that handler: the step that ends the
\* handler with the failure leaves every connection open and leaves the
\* registry entries and the room memberships as they were
MessageKinds == InteractKindsA \cup InteractKindsB \cup {"join"}
OthersIn(e, s) ==
  {u \in Sockets \ {s} : u \in activeSessions /\ sessionData[u].currentEvent = e}
C36_JoinReplyListsOthers ==
  [][(impl = "A" /\ done' # done /\ done'.kind = "join" /\ done'.res = "joined")
       => /\ \E k \in 1..Len(done'.out) :
               /\ done'.out[k].type = "active-users"
               /\ done'.out[k].val = OthersIn(done'.ev, done'.sock)
               /\ \E j \in 1..Len(done'.out) :
                    /\ done'.out[j].type = "joined-event"
                    /\ done'.out[j].val = Cardinality(done'.out[k].val) + 1
          /\ \A k \in 1..Len(done'.out) :
               done'.out[k].type \in {"active-users", "joined-event"}
                 => done'.out[k].to \subseteq {done'.sock}]_vars
C36_RepliedWithAPeer ==
  /\ impl = "A" /\ done.kind = "join" /\ done.res = "joined"
  /\ \E k \in 1..Len(done.out) :
       /\ done.out[k].type = "active-users" /\ done.out[k].val # {}
       /\ done.out[k].to = {done.sock}

\* C37: cursor-move persistence is throttled to one sample per connection
\* per second, also for handlers in flight together: no two cursor-move
\* handlers of one connection that were accepted within 1000 ms of each
\* other are both writing their sample to the store
C37_OnePersistedSamplePerSecond ==
  impl = "B" =>
    \A i \in 1..Len(inflight), j \in 1..Len(inflight) :
      (/\ i < j
       /\ inflight[i].kind = "cursor-move" /\ inflight[j].kind = "cursor-move"
       /\ inflight[i].sock = inflight[j].sock
       /\ inflight[i].pc = "save" /\ inflight[j].pc = "save")
      => inflight[j].now - inflight[i].now > throttleMs

\* C38: a store failure while persisting a cursor sample does not use up the
\* throttle window: the handler ends without touching the connection's
\* lastCursorLog and without writing a row, and the failed sample is not
\* tried again
C38_FailedSampleKeepsWindowOpen ==
  [][(impl = "B" /\ done' # done /\ done'.kind = "cursor-move" /\ done'.res = "error")
       => /\ activeConnections'[done'.sock].lastCursorLog
               = activeConnections[done'.sock].lastCursorLog
          /\ logs' = logs
          /\ Len(inflight') = Len(inflight) - 1
          /\ \A k \in 1..Len(inflight') :
               \E j \in 1..Len(inflight) : inflight'[k] = inflight[j]]_vars
C38_FailedWithWindowOpen ==
  /\ impl = "B" /\ done.kind = "cursor-move" /\ done.res = "error"
  /\ HasEntryB(activeConnections, done.sock)
  /\ activeConnections[done.sock].eventId = done.ev
  /\ ThrottlePass(clock, activeConnections[done.sock].lastCursorLog)
  /\ FindActive(done.sid, done.ev) # 0

\* C39: POST /start-session for a pair that already has a row reuses it:
\* when the request has answered that it resumed the session, it has created
\* no row, the row it resumed is active, its sessionEnd and totalDuration are
\* cleared and its sessionStart is set, and the request has left every row's
\* cursorData, interactions and pageViews as they were
C39_StartSessionReusesRow ==
  [][(impl = "B" /\ done' # done /\ done'.kind = "start-session" /\ done'.res = "200")
       => /\ Len(logs') = Len(logs)
          /\ done'.row \in 1..Len(logs')
          /\ logs'[done'.row].isActive
          /\ logs'[done'.row].endTime = NullTime
          /\ logs'[done'.row].duration = NullTime
          /\ logs'[done'.row].startTime # NullTime
          /\ \A r \in 1..Len(logs) :
               /\ logs'[r].cursorData = logs[r].cursorData
               /\ logs'[r].interactions = logs[r].interactions
               /\ logs'[r].pageViews = logs[r].pageViews]_vars

\* C40 (as the specification states it): a REST movement, interaction or
\* page-view request never adds to a row that is closed
C40_ClosedNeverGains ==
  [][(impl = "B" /\ done' # done /\ done'.kind \in RestTrackKinds)
       => \A r \in 1..Len(logs) :
            ~logs[r].isActive
              => /\ logs'[r].cursorData = logs[r].cursorData
                 /\ logs'[r].interactions = logs[r].interactions
                 /\ logs'[r].pageViews = logs[r].pageViews]_vars

\* C40 (as the source has it): a REST movement, interaction, page-view or
\* end-session request that finds no active row for its pair replies 404 and
\* changes no stored row; a request goes on to its write only with a row it
\* read while that row was active, so a closed row gains a sample,
\* interaction or page view only from such a request
C40_NotFoundChangesNothing ==
  /\ [](impl = "B" =>
         \A i \in 1..Len(inflight) :
           inflight[i].kind \in RestTrackKinds
             => /\ inflight[i].row \in 1..Len(logs)
                /\ inflight[i].snap.isActive
                /\ logs[inflight[i].row].sessionId = inflight[i].sid
                /\ logs[inflight[i].row].eventId = inflight[i].ev)
  /\ [][(impl = "B" /\ done' # done /\ done'.res = "404"
           /\ done'.kind \in RestTrackKinds \cup {"end-session"})
          => logs' = logs /\ ActiveRows(done'.sid, done'.ev) = {}]_vars
  /\ [][(impl = "B" /\ done' # done /\ done'.kind \in RestTrackKinds)
          => \A r \in 1..Len(logs) :
               logs'[r] # logs[r]
                 => \E i \in 1..Len(inflight) :
                      /\ inflight[i].kind = done'.kind /\ inflight[i].row = r
                      /\ inflight[i].snap.isActive]_vars
C40_TrackedClosedNotFound ==
  /\ impl = "B" /\ done.kind \in RestTrackKinds /\ done.res = "404"
  /\ \E i \in PairRows(done.sid, done.ev) :
       ~logs[i].isActive /\ logs[i].endTime # NullTime

====
